---------------------------- MODULE Spec2Model ----------------------------
(***************************************************************************)
(* Model of the financial aggregation and scenario engine of               *)
(* src/project_one/my-app/src/App.tsx.                                     *)
(*                                                                         *)
(* Numbers.  The program computes with JavaScript doubles.  The model      *)
(* computes with exact rationals <<n, d>> (d > 0, lowest terms), so a sum  *)
(* or a product is the mathematical one and the only rounding is the       *)
(* rounding the code asks for (toFixed, Math.round).  Money is in dollars. *)
(*                                                                         *)
(* Strings.  A string is modelled by a TLA+ string naming it and its       *)
(* UTF-16 code units are given by charCodes (s.charCodeAt(i)).             *)
(***************************************************************************)
EXTENDS Integers, Sequences, FiniteSets, TLC

VARIABLES rows, result,
          activeTab, showInsights, query, kind,
          isLoading, progress, prevQueryRef, timersRef, timers

\* the state of App and of its ChatBar.  timers holds the timers the window
\* has pending, in the order in which their delays end; timersRef holds the
\* ids ChatBar has recorded.
appVars == <<activeTab, showInsights, query, kind,
             isLoading, progress, prevQueryRef, timersRef, timers>>
vars == <<rows, result, appVars>>

(***************************************************************************)
(* Exact rational arithmetic (the number type of the program).             *)
(***************************************************************************)
\* Every operator below binds its arguments as values before it uses them,
\* so that an argument is computed once however often the body mentions it.
Val(S) == CHOOSE v \in S : TRUE
\* const x = v; F(x)
Bind(v, F(_)) == Val({ F(x) : x \in {v} })
\* the sequence s with every element computed
Tuple(s) == s \o <<>>

Abs(n) == IF n < 0 THEN -n ELSE n

RECURSIVE GCD(_, _)
GCD(a, b) == IF b = 0 THEN a ELSE Val({ GCD(b, r) : r \in {a % b} })

\* n/d in lowest terms with a positive denominator
RNorm(n, d) ==
    Val({ Val({ IF q < 0 THEN <<(-p) \div g, (-q) \div g>> ELSE <<p \div g, q \div g>>
                : g \in {GCD(Abs(p), Abs(q))} })
          : p \in {n}, q \in {d} })

R(n) == <<n, 1>>
Zero == <<0, 1>>
One == <<1, 1>>
\* the decimal literal n / 10^k, e.g. Dec(35, 2) is 0.35
Pow10(k) == CASE k = 0 -> 1 [] k = 1 -> 10 [] k = 2 -> 100 [] k = 3 -> 1000
              [] k = 4 -> 10000 [] k = 5 -> 100000 [] k = 6 -> 1000000
Dec(n, k) == RNorm(n, Pow10(k))

RAdd(x, y) ==
    Val({ Val({ RNorm((a[1] * (b[2] \div g)) + (b[1] * (a[2] \div g)), (a[2] \div g) * b[2])
                : g \in {GCD(a[2], b[2])} })
          : a \in {x}, b \in {y} })
RNeg(x) == Val({ <<-a[1], a[2]>> : a \in {x} })
RSub(x, y) == RAdd(x, RNeg(y))
RMul(x, y) ==
    Val({ IF a[1] = 0 \/ b[1] = 0 THEN Zero
          ELSE Val({ RNorm((a[1] \div g1) * (b[1] \div g2), (a[2] \div g2) * (b[2] \div g1))
                     : g1 \in {GCD(Abs(a[1]), b[2])}, g2 \in {GCD(Abs(b[1]), a[2])} })
          : a \in {x}, b \in {y} })
\* x / y for y # 0
RDiv(x, y) == RMul(x, Val({ RNorm(b[2], b[1]) : b \in {y} }))
RLt(x, y) == RSub(x, y)[1] < 0
RLe(x, y) == RSub(x, y)[1] <= 0
RAbs(x) == Val({ <<Abs(a[1]), a[2]>> : a \in {x} })
RMax(x, y) == Val({ IF RLt(a, b) THEN b ELSE a : a \in {x}, b \in {y} })

\* the integer nearest to a non-negative n/d, a tie going up
RoundHalfUp(x) ==
    Val({ IF 2 * (a[1] % a[2]) >= a[2] THEN (a[1] \div a[2]) + 1 ELSE a[1] \div a[2]
          : a \in {x} })

\* Number.prototype.toFixed(k) read back as a number (+x.toFixed(k)): the
\* multiple of 10^-k nearest to x, a tie going to the larger magnitude
\* (toFixed rounds |x| and prefixes the sign; "-0.00" reads back as 0).
toFixed(x, k) ==
    Val({ Val({ RNorm(IF a[1] < 0 THEN -m ELSE m, Pow10(k))
                : m \in {((Abs(a[1]) \div a[2]) * Pow10(k))
                         + RoundHalfUp(<<(Abs(a[1]) % a[2]) * (Pow10(k) \div GCD(Pow10(k), a[2])),
                                         a[2] \div GCD(Pow10(k), a[2])>>)} })
          : a \in {x} })

\* Math.round: the nearest integer, a tie going towards +Infinity
MathRound(x) ==
    Val({ IF a[1] >= 0 THEN RoundHalfUp(a)
          ELSE IF 2 * ((-a[1]) % a[2]) > a[2] THEN -(((-a[1]) \div a[2]) + 1)
          ELSE -((-a[1]) \div a[2])
          : a \in {x} })

\* s[1] + ... + s[n], added in that order
RECURSIVE RSumN(_, _)
RSumN(s, n) == IF n = 0 THEN Zero ELSE RAdd(RSumN(s, n - 1), s[n])
RSum(s) == Val({ RSumN(t, Len(t)) : t \in {Tuple(s)} })
RECURSIVE IntSumN(_, _)
IntSumN(s, n) == IF n = 0 THEN 0 ELSE IntSumN(s, n - 1) + s[n]
IntSum(s) == Val({ IntSumN(t, Len(t)) : t \in {Tuple(s)} })

(***************************************************************************)
(* rand: the seeded linear-congruential generator.  The generator is the   *)
(* closure variable x; a draw replaces x and returns x / 2147483647.       *)
(***************************************************************************)
LcgModulus == 2147483647
LcgMultiplier == 48271

\* a % b of JavaScript for b > 0: the remainder has the sign of a
jsRem(a, b) == IF a >= 0 THEN a % b ELSE -((-a) % b)

\* (x * 48271) % 2147483647 for 0 <= x < 2147483647.  The product is exact in
\* a double (below 2^53); here it is reduced without leaving 32 bits:
\* with q = m div a and r = m % a, a * x mod m is a * (x % q) - r * (x div q),
\* plus m when that is negative.
lcgMulMod(x) ==
    Val({ Val({ IF s < 0 THEN s + LcgModulus ELSE s
                : s \in {(LcgMultiplier * (v % (LcgModulus \div LcgMultiplier)))
                         - ((LcgModulus % LcgMultiplier) * (v \div (LcgModulus \div LcgMultiplier)))} })
          : v \in {x} })
\* let x = seed % 2147483647
randSeed(seed) == jsRem(seed, LcgModulus)
\* x = (x * 48271) % 2147483647
randNext(x) == IF x >= 0 THEN lcgMulMod(x) ELSE -lcgMulMod(-x)
\* the value a draw returns: x / 2147483647
randValue(x) == RNorm(x, LcgModulus)

(***************************************************************************)
(* hash01: FNV-1a accumulation and two avalanche rounds on 32-bit words.   *)
(* A 32-bit word is <<hi, lo>>, two 16-bit halves.                         *)
(***************************************************************************)
W16 == 65536

\* bit p (a power of two) of a ^ b, in place
XorBit(a, b, p) == ((((a \div p) % 2) + ((b \div p) % 2)) % 2) * p
\* a ^ b for 16-bit a and b
Xor16(a, b) ==
    XorBit(a, b, 1) +
    XorBit(a, b, 2) +
    XorBit(a, b, 4) +
    XorBit(a, b, 8) +
    XorBit(a, b, 16) +
    XorBit(a, b, 32) +
    XorBit(a, b, 64) +
    XorBit(a, b, 128) +
    XorBit(a, b, 256) +
    XorBit(a, b, 512) +
    XorBit(a, b, 1024) +
    XorBit(a, b, 2048) +
    XorBit(a, b, 4096) +
    XorBit(a, b, 8192) +
    XorBit(a, b, 16384) +
    XorBit(a, b, 32768)

\* the 32-bit product of two 16-bit numbers, as <<hi, lo>>
Mul16(x, y) ==
    LET A == (x \div 256) * y
        B == (x % 256) * y
        L == ((A % 256) * 256) + (B % W16)
    IN  <<((A \div 256) + (B \div W16) + (L \div W16)) % W16, L % W16>>

\* Math.imul(h, k): the low 32 bits of the product
imul(h, k) ==
    LET p == Mul16(h[2], k[2])
    IN  <<(p[1] + Mul16(h[1], k[2])[2] + Mul16(h[2], k[1])[2]) % W16, p[2]>>

\* h ^ (h >>> n) for 0 < n < 16
XorShift(h, n) ==
    LET p == 2 ^ n
        shHi == h[1] \div p
        shLo == ((h[1] % p) * (W16 \div p)) + (h[2] \div p)
    IN  <<Xor16(h[1], shHi), Xor16(h[2], shLo)>>

FnvOffset == <<33052, 40389>>      \* 2166136261
FnvPrime == <<256, 403>>           \* 16777619
Murmur == <<23505, 59797>>         \* 0x5bd1e995

\* s.charCodeAt(0 .. s.length - 1) for the strings the model uses
charCodes(s) ==
    CASE s = "" -> <<>>
      [] s = "Cust-24441" -> <<67, 117, 115, 116, 45, 50, 52, 52, 52, 49>>
      [] s = "Cust-15999" -> <<67, 117, 115, 116, 45, 49, 53, 57, 57, 57>>
      [] s = "Cust-28521" -> <<67, 117, 115, 116, 45, 50, 56, 53, 50, 49>>
      [] s = "Cust-23337" -> <<67, 117, 115, 116, 45, 50, 51, 51, 51, 55>>
      [] s = "Cust-8482" -> <<67, 117, 115, 116, 45, 56, 52, 56, 50>>
      [] s = "Cust-459542552" -> <<67, 117, 115, 116, 45, 52, 53, 57, 53, 52, 50, 53, 53, 50>>
      [] s = "H100-80GB" -> <<72, 49, 48, 48, 45, 56, 48, 71, 66>>
      [] s = "A100-80GB" -> <<65, 49, 48, 48, 45, 56, 48, 71, 66>>
      [] s = "A100-40GB" -> <<65, 49, 48, 48, 45, 52, 48, 71, 66>>
      [] s = "RTX-A6000" -> <<82, 84, 88, 45, 65, 54, 48, 48, 48>>
      [] s = "7" -> <<55>>
      [] s = "budget" -> <<98, 117, 100, 103, 101, 116>>
      [] s = "billed" -> <<98, 105, 108, 108, 101, 100>>
      [] s = "2024-01-01" -> <<50, 48, 50, 52, 45, 48, 49, 45, 48, 49>>
      [] s = "2024-01-02" -> <<50, 48, 50, 52, 45, 48, 49, 45, 48, 50>>
      [] s = "2024-01-03" -> <<50, 48, 50, 52, 45, 48, 49, 45, 48, 51>>
      [] s = "2024-01-05" -> <<50, 48, 50, 52, 45, 48, 49, 45, 48, 53>>

\* one turn of the loop of lines 159-162: h ^= charCode; h = imul(h, 16777619)
fnvStep(h, c) == imul(<<h[1], Xor16(h[2], c)>>, FnvPrime)

\* the loop of lines 159-162 over the first n code units; the word after
\* n - 1 turns is bound as a value before the n-th turn is applied to it
RECURSIVE fnv(_, _)
fnv(cs, n) ==
    IF n = 0 THEN FnvOffset
    ELSE Val({ fnvStep(h, cs[n]) : h \in {fnv(cs, n - 1)} })

\* the 32-bit word h >>> 0 of line 166
hashBits(cs) == XorShift(imul(XorShift(fnv(cs, Len(cs)), 13), Murmur), 15)

\* hash01 of the string with code units cs: (h >>> 0) / 4294967295.  The
\* divisor is 65535 * 65537 and a 32-bit numerator is outside TLC's integers,
\* so the value is kept to the multiple of 1/65535 at or below it:
\* floor(h / 65537) / 65535, which is hi when lo >= hi and hi - 1 otherwise.
\* It is 1 exactly when h = 0xFFFFFFFF, as in the code.
HashDen == 65535
hash01(cs) ==
    LET h == hashBits(cs)
    IN  RNorm(IF h[2] >= h[1] THEN h[1] ELSE h[1] - 1, HashDen)

(***************************************************************************)
(* The hash of every key the model uses, computed once.                    *)
(***************************************************************************)
Customers ==
    {"Cust-24441", "Cust-15999", "Cust-28521", "Cust-23337", "Cust-8482", "Cust-459542552"}
GpuTypes == {"H100-80GB", "A100-80GB", "A100-40GB", "RTX-A6000"}
Dates == {"2024-01-01", "2024-01-02", "2024-01-03", "2024-01-05"}

\* the function f as a table of its values (f merged with the empty function)
Table(f) == f @@ <<>>
hashCustomer == Table([c \in Customers |-> hash01(charCodes(c))])
hashGpu == Table([g \in GpuTypes |-> hash01(charCodes(g))])
hashGpu7 == Table([g \in GpuTypes |-> hash01(charCodes(g) \o charCodes("7"))])
hashBudget == Table([d \in Dates |-> hash01(charCodes("budget") \o charCodes(d))])
hashBilled == Table([d \in Dates |-> hash01(charCodes("billed") \o charCodes(d))])

(***************************************************************************)
(* Usage records (UtilRow).  customer is optional: NoCustomer stands for   *)
(* an absent (undefined) customer, which the code tests by truthiness.     *)
(* ncc is an integer number of credits, cost a rational number of dollars. *)
(***************************************************************************)
NoCustomer == ""
Vendors == <<"AWS", "Coreweave", "On-Prem", "OpenAI">>

Row(date, department, project, customer, vendor, gpuType, ncc, cost) ==
    [date |-> date, department |-> department, project |-> project,
     customer |-> customer, vendor |-> vendor, gpuType |-> gpuType,
     ncc |-> ncc, cost |-> cost]

\* Treat On-Prem as Fixed; cloud + APIs as Variable
splitCostNoSubtract(row) ==
    [fixed |-> IF row.vendor = "On-Prem" THEN row.cost ELSE Zero, variable |-> row.cost]
splitCost(row) ==
    LET fixed == IF row.vendor = "On-Prem" THEN row.cost ELSE Zero
    IN  [fixed |-> fixed, variable |-> RSub(row.cost, fixed)]

\* Array.prototype.sort with comparator (a, b) => b[f] - a[f], or with
\* Math.abs(b[f]) - Math.abs(a[f]) when abs: stable, descending
SortKey(x, f, abs) == IF abs THEN RAbs(x[f]) ELSE x[f]
RECURSIVE InsertDesc(_, _, _, _)
InsertDesc(x, s, f, abs) ==
    Val({ IF t = <<>> THEN <<x>>
          ELSE IF RLt(SortKey(Head(t), f, abs), SortKey(x, f, abs)) THEN <<x>> \o t
          ELSE <<Head(t)>> \o InsertDesc(x, Tail(t), f, abs)
          : t \in {s} })
\* the first n elements of s, sorted
RECURSIVE SortDescN(_, _, _, _)
SortDescN(s, n, f, abs) ==
    IF n = 0 THEN <<>> ELSE InsertDesc(s[n], SortDescN(s, n - 1, f, abs), f, abs)
SortDesc(s, f, abs) == Val({ SortDescN(t, Len(t), f, abs) : t \in {Tuple(s)} })

\* position of the entry of map (a sequence of records in insertion order)
\* whose field k equals v, 0 when there is none
IndexOf(map, k, v) ==
    IF \E i \in 1..Len(map) : map[i][k] = v
    THEN CHOOSE i \in 1..Len(map) : map[i][k] = v
    ELSE 0

(***************************************************************************)
(* SpendByDeptProject: spend grouped by department and project.            *)
(***************************************************************************)
\* the update of a group by one record (x.ncc += r.ncc; x.cost += r.cost; ...)
addToGroupOverwriteCost(x, r) ==
    [x EXCEPT !.ncc = @ + r.ncc,
              !.cost = r.cost,
              !.costFixed = RAdd(@, splitCost(r).fixed),
              !.costVariable = RAdd(@, splitCost(r).variable)]
addToGroup(x, r) ==
    [x EXCEPT !.ncc = @ + r.ncc,
              !.cost = RAdd(@, r.cost),
              !.costFixed = RAdd(@, splitCost(r).fixed),
              !.costVariable = RAdd(@, splitCost(r).variable)]

\* one turn of the loop of lines 356-373: record r into map
addToMap(map, r) ==
    Bind(<<r.department, r.project>>, LAMBDA k :
    Bind(IndexOf(map, "key", k), LAMBDA i :
    IF i = 0
    THEN Append(map, addToGroup([key |-> k, department |-> r.department,
                                 project |-> r.project, ncc |-> 0, cost |-> Zero,
                                 costFixed |-> Zero, costVariable |-> Zero], r))
    ELSE [map EXCEPT ![i] = addToGroup(map[i], r)]))

\* the Map after the first n records, in insertion order
RECURSIVE deptProjectMapN(_, _)
deptProjectMapN(rs, n) ==
    IF n = 0 THEN <<>>
    ELSE Val({ addToMap(map, rs[n]) : map \in {deptProjectMapN(rs, n - 1)} })
deptProjectMap(rs) == deptProjectMapN(rs, Len(rs))

SpendByDeptProject(rs) == SortDesc(deptProjectMap(rs), "cost", FALSE)

(***************************************************************************)
(* Customer margin guardrails.                                             *)
(***************************************************************************)
targetGM == Dec(5, 1)
floorGMAboveTarget == Dec(55, 2)
floorGM == Dec(35, 2)

\* m = 0.15 + hash01(customer) * 0.4
customerMargin(customer) == RAdd(Dec(15, 2), RMul(hashCustomer[customer], Dec(4, 1)))

revenueFromCustomerCostMarkup(customer, cost) ==
    RMul(cost, RAdd(One, customerMargin(customer)))
revenueFromCustomerCost(customer, cost) ==
    RDiv(cost, RSub(One, customerMargin(customer)))

\* the Map of lines 1198-1205: cost and ncc per customer, in first-seen order
addCustomer(m, r) ==
    Bind(IndexOf(m, "customer", r.customer), LAMBDA i :
    IF r.customer = NoCustomer THEN m
    ELSE IF i = 0
         THEN Append(m, [customer |-> r.customer, cost |-> r.cost, ncc |-> r.ncc])
         ELSE [m EXCEPT ![i].cost = RAdd(@, r.cost), ![i].ncc = @ + r.ncc])
RECURSIVE customerMapN(_, _)
customerMapN(rs, n) ==
    IF n = 0 THEN <<>>
    ELSE Val({ addCustomer(m, rs[n]) : m \in {customerMapN(rs, n - 1)} })
customerMap(rs) == customerMapN(rs, Len(rs))

\* status from the gross margin (lines 1218-1220)
guardrailStatusOfRounded(gmPct) ==
    IF RLt(toFixed(gmPct, 4), floorGM) THEN "FAIL"
    ELSE IF RLt(toFixed(gmPct, 4), targetGM) THEN "WARN"
    ELSE "OK"
guardrailStatus(gmPct) ==
    IF RLt(gmPct, floorGM) THEN "FAIL"
    ELSE IF RLt(gmPct, targetGM) THEN "WARN"
    ELSE "OK"

\* one CustomerEcon row (lines 1209-1245); rec is the recommendation: its
\* kind and the uplift percentage printed in it
customerEconRowCostWhenNoUnits(customer, v) ==
    Bind(revenueFromCustomerCost(customer, v.cost), LAMBDA revenue :
    Bind(IF revenue[1] > 0 THEN RDiv(RSub(revenue, v.cost), revenue) ELSE Zero, LAMBDA gmPct :
    Bind(IF v.ncc # 0 THEN RDiv(v.cost, R(v.ncc)) ELSE v.cost, LAMBDA cogsPerNcc :
    Bind(IF v.ncc # 0 THEN RDiv(revenue, R(v.ncc)) ELSE Zero, LAMBDA pricePerNcc :
    Bind(IF RLt(floorGM, One) THEN RDiv(cogsPerNcc, RSub(One, floorGM)) ELSE pricePerNcc,
         LAMBDA minPriceFloor :
    Bind(IF RLt(targetGM, One) THEN RDiv(cogsPerNcc, RSub(One, targetGM)) ELSE pricePerNcc,
         LAMBDA minPriceTarget :
    Bind(guardrailStatus(gmPct), LAMBDA status :
    LET upliftTo(minPrice) ==
            IF minPrice[1] # 0 /\ pricePerNcc[1] # 0
            THEN RSub(RDiv(minPrice, pricePerNcc), One) ELSE Zero
    IN  [customer |-> customer,
         cost |-> toFixed(v.cost, 2),
         ncc |-> v.ncc,
         revenue |-> toFixed(revenue, 2),
         gmPct |-> toFixed(gmPct, 4),
         pricePerNcc |-> toFixed(pricePerNcc, 4),
         cogsPerNcc |-> toFixed(cogsPerNcc, 4),
         minPriceFloor |-> toFixed(minPriceFloor, 4),
         minPriceTarget |-> toFixed(minPriceTarget, 4),
         status |-> status,
         rec |-> IF status = "FAIL"
                 THEN [kind |-> "raise",
                       upliftPct |-> toFixed(RMul(upliftTo(minPriceFloor), R(100)), 0)]
                 ELSE IF status = "WARN"
                 THEN [kind |-> "tighten",
                       upliftPct |-> toFixed(RMul(upliftTo(minPriceTarget), R(100)), 0)]
                 ELSE [kind |-> "monitor", upliftPct |-> Zero]])))))))
customerEconRow(customer, v) ==
    Bind(revenueFromCustomerCost(customer, v.cost), LAMBDA revenue :
    Bind(IF revenue[1] > 0 THEN RDiv(RSub(revenue, v.cost), revenue) ELSE Zero, LAMBDA gmPct :
    Bind(IF v.ncc # 0 THEN RDiv(v.cost, R(v.ncc)) ELSE Zero, LAMBDA cogsPerNcc :
    Bind(IF v.ncc # 0 THEN RDiv(revenue, R(v.ncc)) ELSE Zero, LAMBDA pricePerNcc :
    Bind(IF RLt(floorGM, One) THEN RDiv(cogsPerNcc, RSub(One, floorGM)) ELSE pricePerNcc,
         LAMBDA minPriceFloor :
    Bind(IF RLt(targetGM, One) THEN RDiv(cogsPerNcc, RSub(One, targetGM)) ELSE pricePerNcc,
         LAMBDA minPriceTarget :
    Bind(guardrailStatus(gmPct), LAMBDA status :
    LET upliftTo(minPrice) ==
            IF minPrice[1] # 0 /\ pricePerNcc[1] # 0
            THEN RSub(RDiv(minPrice, pricePerNcc), One) ELSE Zero
    IN  [customer |-> customer,
         cost |-> toFixed(v.cost, 2),
         ncc |-> v.ncc,
         revenue |-> toFixed(revenue, 2),
         gmPct |-> toFixed(gmPct, 4),
         pricePerNcc |-> toFixed(pricePerNcc, 4),
         cogsPerNcc |-> toFixed(cogsPerNcc, 4),
         minPriceFloor |-> toFixed(minPriceFloor, 4),
         minPriceTarget |-> toFixed(minPriceTarget, 4),
         status |-> status,
         rec |-> IF status = "FAIL"
                 THEN [kind |-> "raise",
                       upliftPct |-> toFixed(RMul(upliftTo(minPriceFloor), R(100)), 0)]
                 ELSE IF status = "WARN"
                 THEN [kind |-> "tighten",
                       upliftPct |-> toFixed(RMul(upliftTo(minPriceTarget), R(100)), 0)]
                 ELSE [kind |-> "monitor", upliftPct |-> Zero]])))))))

buildCustomerEconomics(rs) ==
    Bind(customerMap(rs), LAMBDA m :
    SortDesc([i \in 1..Len(m) |-> customerEconRow(m[i].customer, m[i])], "cost", FALSE))

(***************************************************************************)
(* Budget vs AWS billing reconciliation and variance allocation.           *)
(***************************************************************************)
\* the keys of groupBy(s, r => r[f]) in Object.entries order: first seen first
RECURSIVE KeysInOrderN(_, _, _)
KeysInOrderN(s, n, f) ==
    IF n = 0 THEN <<>>
    ELSE Val({ IF \E i \in 1..Len(ks) : ks[i] = s[n][f] THEN ks ELSE Append(ks, s[n][f])
               : ks \in {KeysInOrderN(s, n - 1, f)} })
KeysInOrder(s, f) == Val({ KeysInOrderN(t, Len(t), f) : t \in {s} })
\* the group of key k
Group(s, f, k) == SelectSeq(s, LAMBDA r : r[f] = k)
CostSum(s) == RSum([i \in 1..Len(s) |-> s[i].cost])

awsRows(rs) == SelectSeq(rs, LAMBDA r : r.vendor = "AWS")

\* fBudget = 0.95 + hash01("budget" + date) * 0.10
budgetFactor(date) == RAdd(Dec(95, 2), RMul(hashBudget[date], Dec(10, 2)))
\* fBilled = 0.98 + (hash01("billed" + date) - 0.5) * 0.04
billedFactor(date) ==
    RAdd(Dec(98, 2), RMul(RSub(hashBilled[date], Dec(5, 1)), Dec(4, 2)))

\* status of a day: the code's check mark, warning sign and cross
varianceStatusSigned(variancePct) ==
    IF RLt(variancePct, R(1)) THEN "OK"
    ELSE IF RLt(variancePct, R(3)) THEN "WARN"
    ELSE "FAIL"
varianceStatus(variancePct) ==
    IF RLt(RAbs(variancePct), R(1)) THEN "OK"
    ELSE IF RLt(RAbs(variancePct), R(3)) THEN "WARN"
    ELSE "FAIL"

\* one row of byDay (lines 2699-2716)
reconDay(date, list) ==
    Bind(toFixed(CostSum(list), 2), LAMBDA internal :
    Bind(toFixed(RMul(internal, budgetFactor(date)), 2), LAMBDA budget :
    Bind(toFixed(RMul(internal, billedFactor(date)), 2), LAMBDA awsBilled :
    Bind(toFixed(RSub(awsBilled, budget), 2), LAMBDA variance :
    Bind(IF budget[1] # 0 THEN toFixed(RMul(RDiv(variance, budget), R(100)), 2) ELSE Zero,
         LAMBDA variancePct :
    [date |-> date, budget |-> budget, awsBilled |-> awsBilled,
     variance |-> variance, variancePct |-> variancePct,
     status |-> varianceStatus(variancePct)])))))

\* the update of a department's allocation entry (lines 2738-2739)
allocAccumulateOverwrite(curr, deptActual, alloc) ==
    [curr EXCEPT !.awsActual = RAdd(@, deptActual), !.allocatedVariance = alloc]
allocAccumulate(curr, deptActual, alloc) ==
    [curr EXCEPT !.awsActual = RAdd(@, deptActual),
                 !.allocatedVariance = RAdd(@, alloc)]

\* one turn of the inner loop (lines 2731-2740): department of a day into map m
allocateDept(m, day, list, department) ==
    Bind(CostSum(list), LAMBDA totalAwsDay :
    Bind(CostSum(Group(list, "department", department)), LAMBDA deptActual :
    Bind(IF totalAwsDay[1] > 0 THEN RDiv(deptActual, totalAwsDay) ELSE Zero, LAMBDA share :
    Bind(RMul(day.variance, share), LAMBDA alloc :
    Bind(IndexOf(m, "department", department), LAMBDA i :
    IF i = 0
    THEN Append(m, allocAccumulate([department |-> department, awsActual |-> Zero,
                                    allocatedVariance |-> Zero], deptActual, alloc))
    ELSE [m EXCEPT ![i] = allocAccumulate(m[i], deptActual, alloc)])))))

\* the inner loop of lines 2730-2741: the departments depts[1..n] of one day
RECURSIVE allocateDay(_, _, _, _, _)
allocateDay(map, day, list, depts, n) ==
    IF n = 0 THEN map
    ELSE Val({ allocateDept(m, day, list, depts[n])
               : m \in {allocateDay(map, day, list, depts, n - 1)} })

\* the outer loop of lines 2725-2742: the days byDay[1..n]
RECURSIVE allocationMap(_, _, _)
allocationMap(aws, byDay, n) ==
    IF n = 0 THEN <<>>
    ELSE Val({ Val({ allocateDay(prev, byDay[n], list, depts, Len(depts))
                     : depts \in {KeysInOrder(list, "department")} })
               : list \in {Group(aws, "date", byDay[n].date)},
                 prev \in {allocationMap(aws, byDay, n - 1)} })

\* one row of allocationByDept (lines 2745-2753), grand the sum of awsActual
allocationRow(a, grand) ==
    [department |-> a.department,
     awsActual |-> toFixed(a.awsActual, 2),
     allocatedVariance |-> toFixed(a.allocatedVariance, 2),
     sharePct |-> IF a.awsActual[1] > 0
                  THEN toFixed(RMul(RDiv(a.awsActual, grand), R(100)), 2)
                  ELSE Zero]

computeAwsBudgetReconciliation(rs) ==
    Bind(awsRows(rs), LAMBDA aws :
    Bind(KeysInOrder(aws, "date"), LAMBDA dates :
    Bind(Tuple([i \in 1..Len(dates) |-> reconDay(dates[i], Group(aws, "date", dates[i]))]),
         LAMBDA byDay :
    Bind(allocationMap(aws, byDay, Len(byDay)), LAMBDA map :
    Bind(RSum(Tuple([i \in 1..Len(map) |-> map[i].awsActual])), LAMBDA grand :
    [byDay |-> byDay,
     allocationByDept |->
         SortDesc(Tuple([i \in 1..Len(map) |-> allocationRow(map[i], grand)]),
                  "allocatedVariance", TRUE),
     totals |->
         [budget |-> toFixed(RSum(Tuple([i \in 1..Len(byDay) |-> byDay[i].budget])), 2),
          awsBilled |-> toFixed(RSum(Tuple([i \in 1..Len(byDay) |-> byDay[i].awsBilled])), 2),
          variance |-> toFixed(RSum(Tuple([i \in 1..Len(byDay) |-> byDay[i].variance])), 2)]
    ])))))

(***************************************************************************)
(* Benchmark feed and idle-capacity resale.                                *)
(***************************************************************************)
ONPREM_CAPACITY ==
    ("H100-80GB" :> [rigs |-> 8, nccPerRigPerDay |-> 12000]) @@
    ("A100-80GB" :> [rigs |-> 12, nccPerRigPerDay |-> 9000]) @@
    ("A100-40GB" :> [rigs |-> 10, nccPerRigPerDay |-> 6500]) @@
    ("RTX-A6000" :> [rigs |-> 16, nccPerRigPerDay |-> 4000])
\* Object.keys(ONPREM_CAPACITY)
CapacityKeys == <<"H100-80GB", "A100-80GB", "A100-40GB", "RTX-A6000">>
\* capDef.rigs * capDef.nccPerRigPerDay
capacityOf(gpu) == ONPREM_CAPACITY[gpu].rigs * ONPREM_CAPACITY[gpu].nccPerRigPerDay

benchmarkFor(gpuType, shockMultiplier) ==
    Bind(hashGpu[gpuType], LAMBDA h :
    Bind(RAdd(Dec(18, 3), RMul(h, Dec(22, 3))), LAMBDA base :
    Bind(RMul(RSub(hashGpu7[gpuType], Dec(5, 1)), Dec(4, 3)), LAMBDA drift :
    [gpuType |-> gpuType,
     spot |-> toFixed(RMax(Zero, RMul(RAdd(base, drift), shockMultiplier)), 4),
     avg7d |-> toFixed(RMax(Zero, RMul(base, shockMultiplier)), 4),
     spreadPct |-> toFixed(RAdd(Dec(2, 2), RMul(h, Dec(3, 2))), 3),
     vol7dPct |-> toFixed(RAdd(Dec(8, 2), RMul(h, Dec(12, 2))), 3)])))

\* used NCC of On-Prem records on date d and GPU class g (the inner Map entry)
usedNcc(rs, d, g) ==
    IntSum(Tuple([i \in 1..Len(rs) |->
        IF rs[i].vendor = "On-Prem" /\ rs[i].date = d /\ rs[i].gpuType = g
        THEN rs[i].ncc ELSE 0]))
\* the outer Map: its dates in insertion order, and per date the GPU classes
\* that have an entry
aggregateOnPremNccByDayAndGpu(rs) ==
    Bind(SelectSeq(rs, LAMBDA r : r.vendor = "On-Prem"), LAMBDA onPrem :
    Bind(KeysInOrder(onPrem, "date"), LAMBDA dates :
    Tuple([i \in 1..Len(dates) |->
        [date |-> dates[i],
         gpus |-> KeysInOrder(Group(onPrem, "date", dates[i]), "gpuType")]])))

\* what one day adds to sumByGpu[gpu] (lines 1421-1434), gpu a capacity class
idleOfDay(rs, day, gpu) ==
    IF \E j \in 1..Len(day.gpus) : day.gpus[j] = gpu
    THEN IF capacityOf(gpu) - usedNcc(rs, day.date, gpu) > 0
         THEN capacityOf(gpu) - usedNcc(rs, day.date, gpu) ELSE 0
    ELSE capacityOf(gpu)
\* sumByGpu[gpu] || 0 after the loop over the days
sumByGpuIdleWithoutDays(rs, byDay, gpu) ==
    IF Len(byDay) = 0 THEN capacityOf(gpu)
    ELSE IntSum(Tuple([i \in 1..Len(byDay) |-> idleOfDay(rs, byDay[i], gpu)]))
sumByGpu(rs, byDay, gpu) ==
    IntSum(Tuple([i \in 1..Len(byDay) |-> idleOfDay(rs, byDay[i], gpu)]))

\* one row of rowsOut (lines 1439-1457)
resaleRowFeesNotSubtracted(gpu, idle, params, shockPct) ==
    Bind(RMul(R(IF idle > 0 THEN idle ELSE 0), params.sellThroughPct), LAMBDA resaleNcc :
    Bind(RMul(benchmarkFor(gpu, RAdd(One, shockPct)).spot, params.pricePctOfBenchmark),
         LAMBDA price :
    Bind(RMul(resaleNcc, price), LAMBDA gross :
    Bind(RMul(gross, params.marketplaceFeePct), LAMBDA fees :
    Bind(RMul(resaleNcc, params.incrementalCostPerNcc), LAMBDA incrCost :
    Bind(RSub(gross, incrCost), LAMBDA contr :
    [gpuType |-> gpu,
     idleNcc |-> MathRound(R(IF idle > 0 THEN idle ELSE 0)),
     resaleNcc |-> MathRound(resaleNcc),
     price |-> toFixed(price, 4),
     revenue |-> toFixed(gross, 2),
     incrCost |-> toFixed(incrCost, 2),
     fees |-> toFixed(fees, 2),
     contribution |-> toFixed(contr, 2)]))))))
resaleRow(gpu, idle, params, shockPct) ==
    Bind(RMul(R(IF idle > 0 THEN idle ELSE 0), params.sellThroughPct), LAMBDA resaleNcc :
    Bind(RMul(benchmarkFor(gpu, RAdd(One, shockPct)).spot, params.pricePctOfBenchmark),
         LAMBDA price :
    Bind(RMul(resaleNcc, price), LAMBDA gross :
    Bind(RMul(gross, params.marketplaceFeePct), LAMBDA fees :
    Bind(RMul(resaleNcc, params.incrementalCostPerNcc), LAMBDA incrCost :
    Bind(RSub(RSub(gross, incrCost), fees), LAMBDA contr :
    [gpuType |-> gpu,
     idleNcc |-> MathRound(R(IF idle > 0 THEN idle ELSE 0)),
     resaleNcc |-> MathRound(resaleNcc),
     price |-> toFixed(price, 4),
     revenue |-> toFixed(gross, 2),
     incrCost |-> toFixed(incrCost, 2),
     fees |-> toFixed(fees, 2),
     contribution |-> toFixed(contr, 2)]))))))

\* the reducer of lines 1461-1470
addToTotals(acc, r) ==
    [gpuType |-> "Total",
     idleNcc |-> acc.idleNcc + r.idleNcc,
     resaleNcc |-> acc.resaleNcc + r.resaleNcc,
     price |-> Zero,
     revenue |-> toFixed(RAdd(acc.revenue, r.revenue), 2),
     incrCost |-> toFixed(RAdd(acc.incrCost, r.incrCost), 2),
     fees |-> toFixed(RAdd(acc.fees, r.fees), 2),
     contribution |-> toFixed(RAdd(acc.contribution, r.contribution), 2)]
ZeroTotals ==
    [gpuType |-> "Total", idleNcc |-> 0, resaleNcc |-> 0, price |-> Zero,
     revenue |-> Zero, incrCost |-> Zero, fees |-> Zero, contribution |-> Zero]
RECURSIVE resaleTotalsN(_, _)
resaleTotalsN(rowsOut, n) ==
    IF n = 0 THEN ZeroTotals
    ELSE Val({ addToTotals(acc, rowsOut[n]) : acc \in {resaleTotalsN(rowsOut, n - 1)} })

buildIdleResaleModel(rs, params, shockPct) ==
    Bind(aggregateOnPremNccByDayAndGpu(rs), LAMBDA byDay :
    Bind(Tuple([k \in 1..Len(CapacityKeys) |->
                  resaleRow(CapacityKeys[k], sumByGpu(rs, byDay, CapacityKeys[k]),
                            params, shockPct)]),
         LAMBDA rowsOut :
    [byGpu |-> SortDesc(rowsOut, "contribution", FALSE),
     totals |-> resaleTotalsN(rowsOut, Len(rowsOut))]))

(***************************************************************************)
(* exportNetSuiteJournal: the journal entry of a period, one debit line    *)
(* per department and one credit line.  A line is the record pushed to     *)
(* rowsOut; an empty cell ("") is the empty sequence, <<x>> the amount x.  *)
(* External ID, Date, Memo and the NS_DEFAULTS cells are the same in every *)
(* line and carry no amount.                                               *)
(***************************************************************************)
NS_ACCOUNTS == [cogs |-> "5000 COGS - Compute", expense |-> "6100 Compute Expense"]
\* byDept (lines 982-988): department -> amount, in first-seen order
journalByDept(rs) ==
    Bind(KeysInOrder(rs, "department"), LAMBDA depts :
    Tuple([k \in 1..Len(depts) |->
        [department |-> depts[k], amount |-> CostSum(Group(rs, "department", depts[k]))]]))
\* the debit line of a department (lines 998-1009)
journalDebitLineWholeUnits(department, amount) ==
    [account |-> NS_ACCOUNTS.cogs, debit |-> <<toFixed(amount, 0)>>, credit |-> <<>>,
     department |-> department]
journalDebitLine(department, amount) ==
    [account |-> NS_ACCOUNTS.cogs, debit |-> <<toFixed(amount, 2)>>, credit |-> <<>>,
     department |-> department]
\* the credit line (lines 1012-1023)
journalCreditLine(total) ==
    [account |-> NS_ACCOUNTS.expense, debit |-> <<>>, credit |-> <<toFixed(total, 2)>>,
     department |-> ""]
\* rowsOut: 'if (!amount) continue' leaves out a department whose amount is 0
exportNetSuiteJournal(rs) ==
    Bind(SelectSeq(journalByDept(rs), LAMBDA x : x.amount # Zero), LAMBDA posted :
    Tuple([k \in 1..Len(posted) |-> journalDebitLine(posted[k].department, posted[k].amount)])
        \o <<journalCreditLine(CostSum(rs))>>)

(***************************************************************************)
(* Scenario (P&L) engine.                                                  *)
(***************************************************************************)
COMMIT_DISCOUNT == Dec(2, 1)
VENDOR_UNIT_INDEX ==
    ("AWS" :> One) @@ ("Coreweave" :> Dec(9, 1)) @@ ("On-Prem" :> Dec(75, 2)) @@
    ("OpenAI" :> Dec(11, 1))
VendorSet == { Vendors[i] : i \in 1..Len(Vendors) }

computeBaselineKPIs(rs) ==
    Bind(RSum([i \in 1..Len(rs) |->
                 IF rs[i].customer # NoCustomer
                 THEN RDiv(rs[i].cost, RSub(One, customerMargin(rs[i].customer)))
                 ELSE Zero]), LAMBDA revenue :
    Bind(RSum([i \in 1..Len(rs) |-> rs[i].cost]), LAMBDA cogs :
    Bind(RSum([i \in 1..Len(rs) |-> splitCost(rs[i]).fixed]), LAMBDA fixed :
    Bind(RSum([i \in 1..Len(rs) |-> splitCost(rs[i]).variable]), LAMBDA variable :
    Bind(RSub(revenue, cogs), LAMBDA gp :
    Bind(IF revenue[1] > 0 THEN RMul(RDiv(gp, revenue), R(100)) ELSE Zero, LAMBDA gmPct :
    [revenue |-> toFixed(revenue, 2),
     cogs |-> toFixed(cogs, 2),
     gp |-> toFixed(gp, 2),
     gmPct |-> toFixed(gmPct, 2),
     fixed |-> toFixed(fixed, 2),
     variable |-> toFixed(variable, 2)]))))))

\* upliftMap (lines 1787-1791): customer -> factor, in the order of econ
upliftMapOfEveryCustomer(econ, priceUpliftFactor) ==
    Tuple([i \in 1..Len(econ) |->
        [customer |-> econ[i].customer, factor |-> priceUpliftFactor]])
upliftMapOf(econ, priceUpliftFactor) ==
    Tuple([i \in 1..Len(econ) |->
        [customer |-> econ[i].customer,
         factor |-> IF econ[i].status = "WARN" \/ econ[i].status = "FAIL"
                    THEN priceUpliftFactor ELSE One]])
\* upliftMap.get(customer) ?? 1
upliftFactor(upliftMap, customer) ==
    Bind(IndexOf(upliftMap, "customer", customer), LAMBDA i :
    IF i = 0 THEN One ELSE upliftMap[i].factor)

\* the vendor shift of lines 1817-1825
shiftVendorsRelabel(costByVendor, shift) ==
    IF shift.pct[1] > 0 /\ shift.from # shift.to
    THEN Bind(RMul(costByVendor[shift.from], shift.pct), LAMBDA moveBase :
         Bind([costByVendor EXCEPT ![shift.from] = RSub(@, moveBase)], LAMBDA c :
         [c EXCEPT ![shift.to] = RAdd(@, moveBase)]))
    ELSE costByVendor
shiftVendors(costByVendor, shift) ==
    IF shift.pct[1] > 0 /\ shift.from # shift.to
    THEN Bind(RMul(costByVendor[shift.from], shift.pct), LAMBDA moveBase :
         Bind(RMul(moveBase, RDiv(VENDOR_UNIT_INDEX[shift.to], VENDOR_UNIT_INDEX[shift.from])),
              LAMBDA movedPricedAtTo :
         Bind([costByVendor EXCEPT ![shift.from] = RSub(@, moveBase)], LAMBDA c :
         [c EXCEPT ![shift.to] = RAdd(@, movedPricedAtTo)])))
    ELSE costByVendor

\* params.reservedPctByVendor?.[v] ?? 0
reservedPct(reservedPctByVendor, v) ==
    IF v \in DOMAIN reservedPctByVendor THEN reservedPctByVendor[v] ELSE Zero
\* the commit discounts of lines 1828-1833
commitDiscountsFlatAmount(costByVendor, reservedPctByVendor) ==
    Table([v \in VendorSet |->
        RSub(costByVendor[v],
             RMul(reservedPct(reservedPctByVendor, v), COMMIT_DISCOUNT))])
commitDiscounts(costByVendor, reservedPctByVendor) ==
    Table([v \in VendorSet |->
        RSub(costByVendor[v],
             RMul(RMul(costByVendor[v], reservedPct(reservedPctByVendor, v)), COMMIT_DISCOUNT))])

\* lines 1850-1852: acc is the scenario revenue and variable cost so far
addResaleNetOfCosts(acc, resaleTotals) ==
    [revenue |-> RAdd(acc.revenue, resaleTotals.contribution), variable |-> acc.variable]
addResale(acc, resaleTotals) ==
    [revenue |-> RAdd(acc.revenue, resaleTotals.revenue),
     variable |-> RAdd(acc.variable, RAdd(resaleTotals.incrCost, resaleTotals.fees))]

\* the scenario snapshot (lines 1855-1857 and 1868-1875)
scenarioKPIsCogsOfRoundedParts(baseline, revenueScenario, fixedCost, variableScenario) ==
    Bind(toFixed(RAdd(toFixed(fixedCost, 0), toFixed(variableScenario, 0)), 2),
         LAMBDA cogsScenario :
    Bind(toFixed(RSub(revenueScenario, cogsScenario), 2), LAMBDA gpScenario :
    [revenue |-> toFixed(revenueScenario, 2),
     cogs |-> cogsScenario,
     gp |-> gpScenario,
     gmPct |-> IF revenueScenario[1] > 0
               THEN toFixed(RMul(RDiv(gpScenario, revenueScenario), R(100)), 2)
               ELSE Zero,
     fixed |-> baseline.fixed,
     variable |-> toFixed(variableScenario, 2)]))
scenarioKPIs(baseline, revenueScenario, fixedCost, variableScenario) ==
    Bind(toFixed(RAdd(fixedCost, variableScenario), 2), LAMBDA cogsScenario :
    Bind(toFixed(RSub(revenueScenario, cogsScenario), 2), LAMBDA gpScenario :
    [revenue |-> toFixed(revenueScenario, 2),
     cogs |-> cogsScenario,
     gp |-> gpScenario,
     gmPct |-> IF revenueScenario[1] > 0
               THEN toFixed(RMul(RDiv(gpScenario, revenueScenario), R(100)), 2)
               ELSE Zero,
     fixed |-> baseline.fixed,
     variable |-> toFixed(variableScenario, 2)]))

\* deltas (lines 1859-1864); scenario is the snapshot above
scenarioDeltasSwapped(baseline, revenueScenario, scenario) ==
    [revenue |-> toFixed(RSub(baseline.revenue, revenueScenario), 2),
     cogs |-> toFixed(RSub(baseline.cogs, scenario.cogs), 2),
     gp |-> toFixed(RSub(baseline.gp, scenario.gp), 2),
     gmPct |-> toFixed(RSub(baseline.gmPct, scenario.gmPct), 2)]
scenarioDeltas(baseline, revenueScenario, scenario) ==
    [revenue |-> toFixed(RSub(revenueScenario, baseline.revenue), 2),
     cogs |-> toFixed(RSub(scenario.cogs, baseline.cogs), 2),
     gp |-> toFixed(RSub(scenario.gp, baseline.gp), 2),
     gmPct |-> toFixed(RSub(scenario.gmPct, baseline.gmPct), 2)]

\* params.resale and detail.resaleTotals are optional: the empty sequence
\* stands for an absent (undefined, null) value, <<x>> for the value x.
runScenarioDiscountBeforeShift(rs, params) ==
    Bind(computeBaselineKPIs(rs), LAMBDA baseline :
    Bind(upliftMapOf(buildCustomerEconomics(rs),
                     RAdd(One, RDiv(params.priceUpliftWarnFailPct, R(100)))),
         LAMBDA upliftMap :
    Bind(RSum([i \in 1..Len(rs) |->
                 IF rs[i].customer # NoCustomer
                 THEN RMul(revenueFromCustomerCost(rs[i].customer, rs[i].cost),
                           upliftFactor(upliftMap, rs[i].customer))
                 ELSE Zero]), LAMBDA revenueCustomers :
    Bind(RSum([i \in 1..Len(rs) |-> splitCost(rs[i]).fixed]), LAMBDA fixedCost :
    Bind(Table([v \in VendorSet |->
                  RSum([i \in 1..Len(rs) |->
                          IF rs[i].vendor = v THEN splitCost(rs[i]).variable ELSE Zero])]),
         LAMBDA costByVendor0 :
    Bind(shiftVendors(commitDiscounts(costByVendor0, params.reservedPctByVendor),
                      params.vendorShift), LAMBDA costByVendor :
    Bind(IF params.resale # <<>>
         THEN <<buildIdleResaleModel(rs, params.resale[1], params.marketShockPct).totals>>
         ELSE <<>>, LAMBDA resaleTotals :
    Bind([revenue |-> revenueCustomers,
          variable |-> RSum([k \in 1..Len(Vendors) |-> costByVendor[Vendors[k]]])],
         LAMBDA beforeResale :
    Bind(IF resaleTotals # <<>> THEN addResale(beforeResale, resaleTotals[1])
         ELSE beforeResale, LAMBDA acc :
    Bind(scenarioKPIs(baseline, acc.revenue, fixedCost, acc.variable), LAMBDA scenario :
    [baseline |-> baseline,
     scenario |-> scenario,
     deltas |-> scenarioDeltas(baseline, acc.revenue, scenario),
     detail |-> [costByVendor |-> costByVendor, fixedCost |-> fixedCost,
                 upliftMap |-> upliftMap, resaleTotals |-> resaleTotals]]))))))))))
runScenario(rs, params) ==
    Bind(computeBaselineKPIs(rs), LAMBDA baseline :
    Bind(upliftMapOf(buildCustomerEconomics(rs),
                     RAdd(One, RDiv(params.priceUpliftWarnFailPct, R(100)))),
         LAMBDA upliftMap :
    Bind(RSum([i \in 1..Len(rs) |->
                 IF rs[i].customer # NoCustomer
                 THEN RMul(revenueFromCustomerCost(rs[i].customer, rs[i].cost),
                           upliftFactor(upliftMap, rs[i].customer))
                 ELSE Zero]), LAMBDA revenueCustomers :
    Bind(RSum([i \in 1..Len(rs) |-> splitCost(rs[i]).fixed]), LAMBDA fixedCost :
    Bind(Table([v \in VendorSet |->
                  RSum([i \in 1..Len(rs) |->
                          IF rs[i].vendor = v THEN splitCost(rs[i]).variable ELSE Zero])]),
         LAMBDA costByVendor0 :
    Bind(commitDiscounts(shiftVendors(costByVendor0, params.vendorShift),
                         params.reservedPctByVendor), LAMBDA costByVendor :
    Bind(IF params.resale # <<>>
         THEN <<buildIdleResaleModel(rs, params.resale[1], params.marketShockPct).totals>>
         ELSE <<>>, LAMBDA resaleTotals :
    Bind([revenue |-> revenueCustomers,
          variable |-> RSum([k \in 1..Len(Vendors) |-> costByVendor[Vendors[k]]])],
         LAMBDA beforeResale :
    Bind(IF resaleTotals # <<>> THEN addResale(beforeResale, resaleTotals[1])
         ELSE beforeResale, LAMBDA acc :
    Bind(scenarioKPIs(baseline, acc.revenue, fixedCost, acc.variable), LAMBDA scenario :
    [baseline |-> baseline,
     scenario |-> scenario,
     deltas |-> scenarioDeltas(baseline, acc.revenue, scenario),
     detail |-> [costByVendor |-> costByVendor, fixedCost |-> fixedCost,
                 upliftMap |-> upliftMap, resaleTotals |-> resaleTotals]]))))))))))

(***************************************************************************)
(* The application shell: App (active tab, report kind, insights panel,    *)
(* the shared query) and ChatBar (the loading sequence of Ask and Find     *)
(* Compute Insights).  The hourglass sign and the ellipsis of the activity *)
(* messages are written "(hourglass)" and "...".                           *)
(***************************************************************************)
\* the queries typed or picked from the quick prompts (lines 2921-2926)
UserQueries ==
    {"",
     "Show me compute spend by department and project",
     "Do the reconciliation between AWS billing and internal data",
     "What did we spend on OpenAI?",
     "Show customer margin guardrails and pricing leverage"}
\* every string the query can hold: the user's and the activity messages
Queries ==
    {"",
     "Show me compute spend by department and project",
     "Do the reconciliation between AWS billing and internal data",
     "What did we spend on OpenAI?",
     "Show customer margin guardrails and pricing leverage",
     "(hourglass) hydrating utilization rows...",
     "(hourglass) fetching provider feeds...",
     "(hourglass) warming chart engines...",
     "(hourglass) scanning for $/NCC outliers...",
     "(hourglass) flagging variable-heavy departments...",
     "(hourglass) ranking inefficient projects...",
     "(hourglass) aggregating NCC by department & project...",
     "(hourglass) splitting fixed vs variable spend...",
     "(hourglass) rendering stacked bars...",
     "(hourglass) fetching latest AWS bill...",
     "(hourglass) joining with internal utilization ledger...",
     "(hourglass) checking variance thresholds...",
     "(hourglass) fetching OpenAI invoice...",
     "(hourglass) ranking customers by compute spend...",
     "(hourglass) computing unit economics ($/NCC)...",
     "(hourglass) splitting fixed vs variable COGS...",
     "(hourglass) fetching latest provider feeds..."}
\* q.toLowerCase().includes(w), for the words the code looks for
IncludesTable ==
    ("department" :>
        {"Show me compute spend by department and project",
         "(hourglass) flagging variable-heavy departments...",
         "(hourglass) aggregating NCC by department & project..."}) @@
    ("compute spend" :>
        {"Show me compute spend by department and project",
         "(hourglass) ranking customers by compute spend..."}) @@
    ("customer" :>
        {"Show customer margin guardrails and pricing leverage",
         "(hourglass) ranking customers by compute spend..."}) @@
    ("customers" :>
        {"(hourglass) ranking customers by compute spend..."}) @@
    ("spend more compute" :>
        {}) @@
    ("reconciliation" :>
        {"Do the reconciliation between AWS billing and internal data"}) @@
    ("aws" :>
        {"Do the reconciliation between AWS billing and internal data",
         "(hourglass) fetching latest AWS bill..."}) @@
    ("internal" :>
        {"Do the reconciliation between AWS billing and internal data",
         "(hourglass) joining with internal utilization ledger..."}) @@
    ("guardrails" :>
        {"Show customer margin guardrails and pricing leverage"}) @@
    ("pricing leverage" :>
        {"Show customer margin guardrails and pricing leverage"}) @@
    ("margin" :>
        {"Show customer margin guardrails and pricing leverage"}) @@
    ("margin guardrails" :>
        {"Show customer margin guardrails and pricing leverage"}) @@
    ("coreweave" :>
        {}) @@
    ("openai" :>
        {"What did we spend on OpenAI?",
         "(hourglass) fetching OpenAI invoice..."})
includes(q, w) == q \in IncludesTable[w]

\* kind === null
NoKind == "null"
\* detectIntent (lines 2803-2811)
detectIntent(q) ==
    IF includes(q, "compute spend") \/ includes(q, "department") THEN "spendByDeptProject"
    ELSE IF includes(q, "customers") \/ includes(q, "spend more compute") THEN "topCustomers"
    ELSE IF includes(q, "reconciliation") \/ includes(q, "aws") \/ includes(q, "internal")
         THEN "reconcileAwsInternal"
    ELSE IF includes(q, "guardrails") \/ includes(q, "pricing leverage")
            \/ includes(q, "margin guardrails")
         THEN "customerGuardrails"
    ELSE NoKind

\* vendorHint (lines 2273-2278)
vendorHint(q) ==
    IF includes(q, "aws") THEN "AWS bill"
    ELSE IF includes(q, "coreweave") THEN "CoreWeave usage"
    ELSE IF includes(q, "openai") THEN "OpenAI invoice"
    ELSE "provider feeds"
\* `fetching latest ${vendorHint}...` and `fetching ${vendorHint}...`
fetchingLatest(hint) == "fetching latest " \o hint \o "..."
fetching(hint) == "fetching " \o hint \o "..."
\* activityScriptsForQuery (lines 2265-2321)
activityScriptsForQuery(q, mode) ==
    IF mode = "insights"
    THEN <<"scanning for $/NCC outliers...", "flagging variable-heavy departments...",
           "ranking inefficient projects...">>
    ELSE IF includes(q, "reconciliation") \/ includes(q, "aws") \/ includes(q, "internal")
    THEN <<fetchingLatest(vendorHint(q)), "joining with internal utilization ledger...",
           "checking variance thresholds...">>
    ELSE IF includes(q, "customer") \/ includes(q, "spend more compute")
    THEN <<"ranking customers by compute spend...", "computing unit economics ($/NCC)...",
           "splitting fixed vs variable COGS...">>
    ELSE IF includes(q, "guardrails") \/ includes(q, "pricing leverage") \/ includes(q, "margin")
    THEN <<"computing gross margin per customer...", "applying pricing guardrails...",
           "building recommendations...">>
    ELSE IF includes(q, "department") \/ includes(q, "compute spend")
    THEN <<"aggregating NCC by department & project...", "splitting fixed vs variable spend...",
           "rendering stacked bars...">>
    ELSE <<"hydrating utilization rows...", fetching(vendorHint(q)), "warming chart engines...">>
\* `(hourglass) ${msg}`
activityMessage(msg) == "(hourglass) " \o msg
\* the step of the progress bar: (100 * stepMs) / totalMs with stepMs = 90 and
\* totalMs = 5000 (lines 2332-2333, 2341)
ProgressStep == RDiv(R(100 * 90), R(5000))
Full == R(100)

(***************************************************************************)
(* The state machine.  rows is the record set handed to the engine; result *)
(* is the value returned by the one entry point applied to it.             *)
(***************************************************************************)
MaxRows == 3
\* draws made from one generator
MaxDraws == 12

NoResult == [op |-> "none"]

Init ==
    /\ rows = <<>>
    /\ result = NoResult
    /\ activeTab = "compute"
    /\ showInsights = FALSE
    /\ query = ""
    /\ kind = NoKind
    /\ isLoading = FALSE
    /\ progress = Zero
    /\ prevQueryRef = ""
    /\ timersRef = <<>>
    /\ timers = <<>>

\* the record producer appends one record (rows.push)
PushRow(r) ==
    /\ result = NoResult
    /\ Len(rows) < MaxRows
    /\ rows' = Append(rows, r)
    /\ UNCHANGED <<result, appVars>>

\* splitCost(rows[i])
SplitCost(i) ==
    /\ result = NoResult
    /\ i \in 1..Len(rows)
    /\ result' = [op |-> "splitCost", row |-> rows[i], out |-> splitCost(rows[i])]
    /\ UNCHANGED <<rows, appVars>>

SpendByDeptProjectAgg ==
    /\ result = NoResult
    /\ result' = [op |-> "SpendByDeptProject", out |-> SpendByDeptProject(rows)]
    /\ UNCHANGED <<rows, appVars>>

BuildCustomerEconomics ==
    /\ result = NoResult
    /\ result' = [op |-> "buildCustomerEconomics", out |-> buildCustomerEconomics(rows)]
    /\ UNCHANGED <<rows, appVars>>

ComputeAwsBudgetReconciliation ==
    /\ result = NoResult
    /\ result' = [op |-> "computeAwsBudgetReconciliation",
                  out |-> computeAwsBudgetReconciliation(rows)]
    /\ UNCHANGED <<rows, appVars>>

ComputeBaselineKPIs ==
    /\ result = NoResult
    /\ result' = [op |-> "computeBaselineKPIs", out |-> computeBaselineKPIs(rows)]
    /\ UNCHANGED <<rows, appVars>>

\* hash01(rows[i].customer) and the margin 0.15 + hash01(customer) * 0.4 the
\* engine derives from it (lines 1179 and 1760)
Hash01(i) ==
    /\ result = NoResult
    /\ i \in 1..Len(rows)
    /\ rows[i].customer # NoCustomer
    /\ result' = [op |-> "hash01", s |-> rows[i].customer,
                  out |-> hash01(charCodes(rows[i].customer)),
                  margin |-> customerMargin(rows[i].customer)]
    /\ UNCHANGED <<rows, appVars>>

\* const r = rand(seed): a generator that has made no draw yet
Rand(seed) ==
    /\ result = NoResult
    /\ result' = [op |-> "rand", seed |-> seed, x |-> randSeed(seed), draws |-> 0,
                  out |-> Zero]
    /\ UNCHANGED <<rows, appVars>>

\* r(): one draw of the generator
Draw ==
    /\ result.op = "rand"
    /\ result.draws < MaxDraws
    /\ result' = [result EXCEPT !.x = randNext(result.x), !.draws = @ + 1,
                                !.out = randValue(randNext(result.x))]
    /\ UNCHANGED <<rows, appVars>>

BuildIdleResaleModel(params, shockPct) ==
    /\ result = NoResult
    /\ result' = [op |-> "buildIdleResaleModel", params |-> params, shockPct |-> shockPct,
                  out |-> buildIdleResaleModel(rows, params, shockPct)]
    /\ UNCHANGED <<rows, appVars>>

\* exportNetSuiteJournal(rows, periodLabel): out is the journal entry written
\* to the downloaded file
ExportNetSuiteJournal ==
    /\ result = NoResult
    /\ result' = [op |-> "exportNetSuiteJournal", out |-> exportNetSuiteJournal(rows)]
    /\ UNCHANGED <<rows, appVars>>

RunScenarioUpliftOnRecordCost(params) ==
    /\ result = NoResult
    /\ result' = [op |-> "runScenario", params |-> params,
                  out |-> runScenario(
                      [i \in 1..Len(rows) |->
                          [rows[i] EXCEPT !.cost =
                              RMul(@, RAdd(One, RDiv(params.priceUpliftWarnFailPct, R(100))))]],
                      [params EXCEPT !.priceUpliftWarnFailPct = Zero])]
    /\ UNCHANGED <<rows, appVars>>
RunScenario(params) ==
    /\ result = NoResult
    /\ result' = [op |-> "runScenario", params |-> params, out |-> runScenario(rows, params)]
    /\ UNCHANGED <<rows, appVars>>

(***************************************************************************)
(* App and ChatBar.  ChatBar is mounted while the active tab is 'compute'; *)
(* while it is not, isLoading, progress, prevQueryRef and timersRef hold    *)
(* the values the next mount starts from.                                  *)
(***************************************************************************)
\* a pending timer: the progress interval, a message timeout, the timeout
\* that finishes the sequence (with the action and the query its closure
\* holds), or the timeout that calls the action 60 ms later; orphan says that
\* the ChatBar which set the timer has been unmounted
Timer(id, type, msg, action, q) ==
    [id |-> id, type |-> type, msg |-> msg, action |-> action, query |-> q, orphan |-> FALSE]
\* the largest timer id in use, 0 when there is none
lastTimerId(pending, recorded) ==
    LET used == {pending[i].id : i \in 1..Len(pending)} \cup
                {recorded[i] : i \in 1..Len(recorded)} \cup {0}
    IN  CHOOSE n \in used : \A k \in used : k <= n
\* the timeouts in the order in which their delays end
Timeouts == SelectSeq(timers, LAMBDA x : x.type # "progress")
\* timersRef.current.forEach((t) => clearInterval(t) || clearTimeout(t))
clearRecorded ==
    SelectSeq(timers, LAMBDA x : \A i \in 1..Len(timersRef) : timersRef[i] # x.id)
withoutTimer(id) == SelectSeq(timers, LAMBDA x : x.id # id)

\* onChange of the input and onClick of a quick prompt (lines 2405, 2458);
\* the input and the prompts are disabled while loading
SetQuery(q) ==
    /\ activeTab = "compute"
    /\ ~isLoading
    /\ query' = q
    /\ UNCHANGED <<rows, result, activeTab, showInsights, kind,
                   isLoading, progress, prevQueryRef, timersRef, timers>>

\* startLoadingThen(action) (lines 2324-2368)
StartLoadingThen(action) ==
    /\ activeTab = "compute"
    /\ IF isLoading
       THEN UNCHANGED vars
       ELSE LET scripts == activityScriptsForQuery(query, action)
                base == lastTimerId(timers, timersRef)
                progId == base + 1
                doneId == base + Len(scripts) + 1
                started ==
                    <<Timer(progId, "progress", "", "", "")>> \o
                    [i \in 1..(Len(scripts) - 1) |->
                        Timer(base + 1 + i, "message", scripts[i + 1], "", "")] \o
                    <<Timer(doneId, "done", "", action, query)>>
            IN  /\ prevQueryRef' = query
                /\ isLoading' = TRUE
                /\ progress' = Zero
                /\ query' = activityMessage(scripts[1])
                /\ timers' = timers \o started
                /\ timersRef' = timersRef \o [i \in 1..Len(started) |-> started[i].id]
                /\ UNCHANGED <<rows, result, activeTab, showInsights, kind>>

\* the progress ticker (lines 2340-2342)
ProgressTick ==
    /\ \E i \in 1..Len(timers) : timers[i].type = "progress"
    /\ progress' = IF RLt(Full, RAdd(progress, ProgressStep)) THEN Full
                   ELSE RAdd(progress, ProgressStep)
    /\ UNCHANGED <<rows, result, activeTab, showInsights, query, kind,
                   isLoading, prevQueryRef, timersRef, timers>>

\* the message rotator (lines 2346-2349)
MessageTimeout ==
    /\ Timeouts # <<>>
    /\ Timeouts[1].type = "message"
    /\ query' = activityMessage(Timeouts[1].msg)
    /\ timers' = withoutTimer(Timeouts[1].id)
    /\ UNCHANGED <<rows, result, activeTab, showInsights, kind,
                   isLoading, progress, prevQueryRef, timersRef>>

\* the timeout that finishes the sequence after totalMs (lines 2352-2366)
DoneTimeout ==
    /\ Timeouts # <<>>
    /\ Timeouts[1].type = "done"
    /\ timers' = clearRecorded \o
                 <<Timer(lastTimerId(clearRecorded, <<>>) + 1, "action", "",
                         Timeouts[1].action, Timeouts[1].query)>>
    /\ timersRef' = <<>>
    /\ isLoading' = FALSE
    /\ progress' = Full
    /\ query' = prevQueryRef
    /\ UNCHANGED <<rows, result, activeTab, showInsights, kind, prevQueryRef>>

\* the timeout set by the one above (lines 2360-2364): setProgress(0), then
\* onGo = run (lines 2813-2817) or onInsights = revealInsightsOnly (2819-2822).
\* run reads the query of the render in which the sequence was started.
ActionTimeout ==
    /\ Timeouts # <<>>
    /\ Timeouts[1].type = "action"
    /\ timers' = withoutTimer(Timeouts[1].id)
    /\ progress' = IF Timeouts[1].orphan THEN progress ELSE Zero
    /\ IF Timeouts[1].action = "ask"
       THEN kind' = detectIntent(Timeouts[1].query) /\ showInsights' = FALSE
       ELSE showInsights' = TRUE /\ kind' = NoKind
    /\ UNCHANGED <<rows, result, activeTab, query, isLoading, prevQueryRef, timersRef>>

\* TopBar onChange = setActiveTab (line 2934) with the effect of lines
\* 2928-2930; leaving 'compute' unmounts ChatBar, whose cleanup (2371-2376)
\* clears the timers it has recorded
SetActiveTab(tab) ==
    IF tab = activeTab THEN UNCHANGED vars
    ELSE /\ activeTab' = tab
         /\ IF tab # "compute"
            THEN /\ showInsights' = FALSE
                 /\ timers' = [i \in 1..Len(clearRecorded) |->
                                  [clearRecorded[i] EXCEPT !.orphan = TRUE]]
                 /\ timersRef' = <<>>
                 /\ isLoading' = FALSE
                 /\ progress' = Zero
                 /\ prevQueryRef' = ""
            ELSE UNCHANGED <<showInsights, timers, timersRef, isLoading, progress,
                             prevQueryRef>>
         /\ UNCHANGED <<rows, result, query, kind>>

(***************************************************************************)
(* Record pools: the records the producer may append in each              *)
(* specification.                                                          *)
(***************************************************************************)
SplitPool ==
    { Row("2024-01-01", "GenAI", "Stable Diffusion v3", NoCustomer, "On-Prem", "H100-80GB", 100, Dec(500, 2)),
      Row("2024-01-01", "GenAI", "Stable Diffusion v3", NoCustomer, "AWS", "A100-80GB", 50, Dec(700, 2)),
      Row("2024-01-02", "GenAI", "Style Transfer", NoCustomer, "Coreweave", "A100-40GB", 5, Dec(10, 2)),
      Row("2024-01-01", "Product", "SDXL API", "Cust-15999", "OpenAI", "RTX-A6000", 321, Dec(1234, 2)),
      Row("2024-01-02", "Product", "SDXL API", NoCustomer, "On-Prem", "A100-80GB", 7, Dec(1, 2)),
      Row("2024-01-02", "Audio", "Stable Audio", NoCustomer, "On-Prem", "H100-80GB", 9, Zero) }

EconPool ==
    { Row("2024-01-01", "GenAI", "Image Embedder", "Cust-24441", "On-Prem", "H100-80GB", 100, Dec(1000, 2)),
      Row("2024-01-02", "Product", "SDXL API", "Cust-24441", "AWS", "A100-80GB", 50, Dec(10, 2)),
      Row("2024-01-01", "Product", "Realtime Gen", "Cust-15999", "Coreweave", "A100-40GB", 100, Dec(1234, 2)),
      Row("2024-01-01", "Product", "Batch Inference", "Cust-28521", "OpenAI", "RTX-A6000", 0, Dec(500, 2)),
      Row("2024-01-02", "GenAI", "Style Transfer", "Cust-23337", "AWS", "H100-80GB", 10, Dec(100, 2)),
      Row("2024-01-02", "GenAI", "Style Transfer", "Cust-8482", "AWS", "H100-80GB", 10, Dec(7, 2)),
      Row("2024-01-01", "Audio", "Stable Audio", NoCustomer, "AWS", "A100-80GB", 5, Dec(300, 2)),
      Row("2024-01-01", "Product", "SDXL API", "Cust-15999", "AWS", "A100-80GB", 3, Zero),
      Row("2024-01-02", "Product", "Batch Inference", "Cust-28521", "AWS", "A100-80GB", 0, Zero),
      Row("2024-01-03", "Product", "Batch Inference", "Cust-28521", "OpenAI", "RTX-A6000", 50, Dec(143, 2)) }

ReconPool ==
    { Row("2024-01-01", "GenAI", "Stable Diffusion v3", NoCustomer, "AWS", "H100-80GB", 70, Dec(50, 2)),
      Row("2024-01-01", "Product", "SDXL API", "Cust-15999", "AWS", "A100-80GB", 120, Dec(50, 2)),
      Row("2024-01-02", "GenAI", "Style Transfer", NoCustomer, "AWS", "A100-40GB", 400, Dec(333, 2)),
      Row("2024-01-02", "Audio", "Stable Audio", NoCustomer, "AWS", "A100-80GB", 300, Dec(250, 2)),
      Row("2024-01-03", "Product", "Realtime Gen", NoCustomer, "AWS", "RTX-A6000", 5, Zero),
      Row("2024-01-01", "Audio", "Podcast Cleaner", NoCustomer, "On-Prem", "H100-80GB", 50, Dec(500, 2)),
      Row("2024-01-03", "Audio", "Stable Audio", NoCustomer, "AWS", "A100-80GB", 90, Dec(321, 2)),
      Row("2024-01-05", "Product", "SDXL API", NoCustomer, "AWS", "A100-80GB", 40, Dec(200, 2)) }

ResalePool ==
    { Row("2024-01-01", "GenAI", "Stable Diffusion v3", NoCustomer, "On-Prem", "H100-80GB", 100, Dec(500, 2)),
      Row("2024-01-01", "GenAI", "Image Embedder", NoCustomer, "On-Prem", "H100-80GB", 5, Dec(25, 2)),
      Row("2024-01-02", "Audio", "Stable Audio", NoCustomer, "On-Prem", "A100-80GB", 37, Dec(500, 2)),
      Row("2024-01-02", "Platform", "Model Gateway", NoCustomer, "On-Prem", "L40S", 37, Dec(100, 2)),
      Row("2024-01-02", "Research", "LMM Prototype", NoCustomer, "On-Prem", "RTX-A6000", 70000, Dec(4900, 2)),
      Row("2024-01-01", "Product", "SDXL API", "Cust-15999", "AWS", "A100-40GB", 50, Dec(700, 2)) }

\* IdleResaleParams values and market shocks offered to buildIdleResaleModel
ResaleParams(sellThroughPct, pricePctOfBenchmark, incrementalCostPerNcc, marketplaceFeePct) ==
    [sellThroughPct |-> sellThroughPct, pricePctOfBenchmark |-> pricePctOfBenchmark,
     incrementalCostPerNcc |-> incrementalCostPerNcc, marketplaceFeePct |-> marketplaceFeePct]
ResaleParamsSet ==
    { ResaleParams(Dec(5, 1), One, Dec(2, 3), Dec(1, 1)),
      ResaleParams(Dec(2, 1), Dec(11, 1), Dec(1, 3), Zero) }
ShockSet == { Zero, Dec(1, 1), Dec(-2, 1) }

ScenarioPool ==
    { Row("2024-01-01", "GenAI", "Style Transfer", "Cust-24441", "AWS", "H100-80GB", 5, Dec(10, 2)),
      Row("2024-01-01", "Product", "Batch Inference", "Cust-28521", "OpenAI", "RTX-A6000", 50, Dec(143, 2)),
      Row("2024-01-02", "Audio", "Stable Audio", NoCustomer, "On-Prem", "A100-80GB", 37, Dec(500, 2)),
      Row("2024-01-01", "Platform", "Model Gateway", NoCustomer, "Coreweave", "A100-40GB", 50, Dec(700, 2)),
      Row("2024-01-02", "Research", "Tokenizer Lab", NoCustomer, "AWS", "A100-80GB", 60, Dec(300, 2)),
      Row("2024-01-02", "GenAI", "Style Transfer", "Cust-24441", "AWS", "H100-80GB", 1, Dec(425, 5)) }

\* ScenarioParams values offered to runScenario
ScenarioParams(uplift, reserved, from, to, pct, resale, shock) ==
    [priceUpliftWarnFailPct |-> uplift, reservedPctByVendor |-> reserved,
     vendorShift |-> [from |-> from, to |-> to, pct |-> pct],
     resale |-> resale, marketShockPct |-> shock]
NoReserved == <<>>
ZeroReserved == [v \in VendorSet |-> Zero] @@ <<>>
SomeReserved == ("AWS" :> Dec(5, 1)) @@ ("On-Prem" :> One)
ScenarioResale == ResaleParams(Dec(5, 2), One, Dec(2, 3), Dec(1, 1))
ScenarioParamsSet ==
    { ScenarioParams(Zero, NoReserved, "AWS", "Coreweave", Zero, <<>>, Zero),
      ScenarioParams(Zero, ZeroReserved, "On-Prem", "AWS", Zero, <<>>, Dec(1, 1)),
      ScenarioParams(R(10), NoReserved, "AWS", "Coreweave", Zero, <<>>, Zero),
      ScenarioParams(Zero, NoReserved, "AWS", "On-Prem", Dec(5, 1), <<>>, Zero),
      ScenarioParams(Zero, NoReserved, "Coreweave", "Coreweave", One, <<>>, Zero),
      ScenarioParams(R(10), ZeroReserved, "OpenAI", "Coreweave", One, <<>>, Zero),
      ScenarioParams(Zero, NoReserved, "Coreweave", "AWS", Dec(5, 1), <<>>, Zero),
      ScenarioParams(Zero, SomeReserved, "Coreweave", "OpenAI", Dec(25, 2), <<>>, Zero),
      ScenarioParams(Zero, NoReserved, "AWS", "Coreweave", Zero, <<ScenarioResale>>, Zero),
      ScenarioParams(R(-10), SomeReserved, "Coreweave", "On-Prem", One, <<ScenarioResale>>, Dec(-2, 1)),
      ScenarioParams(R(10), SomeReserved, "AWS", "On-Prem", Dec(5, 1), <<ScenarioResale>>, Dec(1, 1)) }

NextSplit ==
    \/ \E r \in SplitPool : PushRow(r)
    \/ \E i \in 1..MaxRows : SplitCost(i)
    \/ SpendByDeptProjectAgg
SpecSplit == Init /\ [][NextSplit]_vars

NextRecon ==
    \/ \E r \in ReconPool : PushRow(r)
    \/ ComputeAwsBudgetReconciliation
SpecRecon == Init /\ [][NextRecon]_vars

NextEcon ==
    \/ \E r \in EconPool : PushRow(r)
    \/ BuildCustomerEconomics
SpecEcon == Init /\ [][NextEcon]_vars

NextResale ==
    \/ \E r \in ResalePool : PushRow(r)
    \/ \E p \in ResaleParamsSet, s \in ShockSet : BuildIdleResaleModel(p, s)
SpecResale == Init /\ [][NextResale]_vars

NextJournal ==
    \/ \E r \in SplitPool : PushRow(r)
    \/ ExportNetSuiteJournal
SpecJournal == Init /\ [][NextJournal]_vars

NextApp ==
    \/ \E q \in UserQueries : SetQuery(q)
    \/ \E action \in {"ask", "insights"} : StartLoadingThen(action)
    \/ ProgressTick
    \/ MessageTimeout
    \/ DoneTimeout
    \/ ActionTimeout
    \/ \E tab \in {"compute", "simulate"} : SetActiveTab(tab)
SpecApp == Init /\ [][NextApp]_vars

NextScenario ==
    \/ \E r \in ScenarioPool : PushRow(r)
    \/ \E p \in ScenarioParamsSet : RunScenario(p)
SpecScenario == Init /\ [][NextScenario]_vars

\* every entry point over one record set
Pool ==
    { Row("2024-01-01", "GenAI", "Style Transfer", "Cust-24441", "AWS", "H100-80GB", 5, Dec(10, 2)),
      Row("2024-01-01", "Product", "Batch Inference", "Cust-28521", "OpenAI", "RTX-A6000", 50, Dec(143, 2)),
      Row("2024-01-02", "Audio", "Stable Audio", NoCustomer, "On-Prem", "A100-80GB", 37, Dec(500, 2)),
      Row("2024-01-01", "Platform", "Model Gateway", NoCustomer, "Coreweave", "A100-40GB", 50, Dec(700, 2)) }
Next ==
    \/ \E r \in Pool : PushRow(r)
    \/ \E i \in 1..MaxRows : SplitCost(i)
    \/ SpendByDeptProjectAgg
    \/ BuildCustomerEconomics
    \/ ComputeAwsBudgetReconciliation
    \/ ComputeBaselineKPIs
    \/ \E p \in ResaleParamsSet, s \in ShockSet : BuildIdleResaleModel(p, s)
    \/ \E p \in ScenarioParamsSet : RunScenario(p)
Spec == Init /\ [][Next]_vars

\* record sets that may hold a record with a negative cost or negative units
InvalidPool ==
    { Row("2024-01-01", "GenAI", "Style Transfer", "Cust-24441", "AWS", "H100-80GB", 5, Dec(-10, 2)),
      Row("2024-01-02", "Audio", "Stable Audio", NoCustomer, "On-Prem", "A100-80GB", -37, Dec(500, 2)),
      Row("2024-01-01", "Product", "Batch Inference", "Cust-28521", "OpenAI", "RTX-A6000", 50, Dec(143, 2)),
      Row("2024-01-02", "Research", "Tokenizer Lab", NoCustomer, "AWS", "A100-80GB", 60, Dec(300, 2)) }
\* scenario knobs outside [0, 1]: a shift of 150%, a reserved fraction of 2,
\* a negative sell-through with a marketplace fee of 150%
OutOfRangeParamsSet ==
    { ScenarioParams(Zero, NoReserved, "AWS", "Coreweave", Dec(15, 1), <<>>, Zero),
      ScenarioParams(Zero, ("AWS" :> R(2)), "AWS", "Coreweave", Zero, <<>>, Zero),
      ScenarioParams(Zero, NoReserved, "AWS", "Coreweave", Zero,
                     <<ResaleParams(Dec(-5, 2), One, Dec(2, 3), Dec(15, 1))>>, Zero) }
NextInvalid ==
    \/ \E r \in InvalidPool : PushRow(r)
    \/ BuildCustomerEconomics
    \/ ComputeAwsBudgetReconciliation
    \/ \E p \in ResaleParamsSet, s \in ShockSet : BuildIdleResaleModel(p, s)
    \/ \E p \in ScenarioParamsSet : RunScenario(p)
    \/ \E p \in OutOfRangeParamsSet : RunScenario(p)
SpecInvalid == Init /\ [][NextInvalid]_vars

\* records of every customer name of the model
HashPool ==
    { Row("2024-01-01", "Product", "SDXL API", c, "AWS", "A100-80GB", 10, Dec(100, 2))
      : c \in Customers }
NextHash ==
    \/ \E r \in HashPool : PushRow(r)
    \/ \E i \in 1..MaxRows : Hash01(i)
SpecHash == Init /\ [][NextHash]_vars

\* seeds handed to rand: the application's defaults (42, 1337), 0, the modulus
\* and its neighbours, and negative integers
SeedSet == {42, 1337, 0, 1, 2, 2147483646, 2147483647, -1, -42, -1337, -2147483646, -2147483647}
NextRand ==
    \/ \E seed \in SeedSet : Rand(seed)
    \/ Draw
SpecRand == Init /\ [][NextRand]_vars

(***************************************************************************)
(* Helpers of the properties.                                              *)
(***************************************************************************)
SumBy(s, f(_)) == RSum([i \in 1..Len(s) |-> f(s[i])])
IntSumBy(s, f(_)) == RSum([i \in 1..Len(s) |-> R(f(s[i]))])[1]
Range(s) == {s[i] : i \in 1..Len(s)}
IndexPermutations(n) == {p \in [1..n -> 1..n] : \A i, j \in 1..n : p[i] = p[j] => i = j}
Permuted(s, p) == [i \in 1..Len(s) |-> s[p[i]]]
CostIfOnPrem(r) == IF r.vendor = "On-Prem" THEN r.cost ELSE Zero
CostIfNotOnPrem(r) == IF r.vendor = "On-Prem" THEN Zero ELSE r.cost
RowCost(r) == r.cost
RowNcc(r) == r.ncc
GroupFixed(x) == x.costFixed
GroupVariable(x) == x.costVariable
\* the records of rs of one customer, and their total cost
OfCustomer(rs, c) == SelectSeq(rs, LAMBDA r : r.customer = c)
CustomerCost(rs, c) == SumBy(OfCustomer(rs, c), RowCost)
\* the record set with every cost multiplied by k
Scaled(rs, k) == [i \in 1..Len(rs) |-> [rs[i] EXCEPT !.cost = RMul(@, k)]]
ScaleFactors == {<<2, 1>>, <<1, 2>>, <<3, 1>>, <<7, 3>>}

(***************************************************************************)
(* C3.  splitCost(r).fixed + splitCost(r).variable equals r.cost exactly;  *)
(* fixed = cost and variable = 0 for On-Prem, fixed = 0 and variable =     *)
(* cost for every other vendor.                                            *)
(***************************************************************************)
C3_SplitCostExact ==
    result.op = "splitCost" =>
        /\ RAdd(result.out.fixed, result.out.variable) = result.row.cost
        /\ result.row.vendor = "On-Prem" =>
             result.out.fixed = result.row.cost /\ result.out.variable = Zero
        /\ result.row.vendor # "On-Prem" =>
             result.out.fixed = Zero /\ result.out.variable = result.row.cost

C3_Witness ==
    /\ result.op = "splitCost"
    /\ result.row.vendor = "On-Prem"
    /\ result.row.cost[1] > 0
    /\ result.out.fixed = result.row.cost

(***************************************************************************)
(* C4.  Grouped by department+project, each group's cost equals its        *)
(* costFixed + costVariable, and the groups' cost, costFixed, costVariable *)
(* and ncc add up to the sums over all records (fixed being the cost of    *)
(* the On-Prem records, variable the cost of the others), whatever the     *)
(* order of the records.                                                   *)
(***************************************************************************)
C4_GroupSumsReconcile ==
    result.op = "SpendByDeptProject" =>
        /\ \A i \in 1..Len(result.out) :
             result.out[i].cost = RAdd(result.out[i].costFixed, result.out[i].costVariable)
        /\ SumBy(result.out, RowCost) = SumBy(rows, RowCost)
        /\ SumBy(result.out, GroupFixed) = SumBy(rows, CostIfOnPrem)
        /\ SumBy(result.out, GroupVariable) = SumBy(rows, CostIfNotOnPrem)
        /\ IntSumBy(result.out, RowNcc) = IntSumBy(rows, RowNcc)
        /\ \A p \in IndexPermutations(Len(rows)) :
             Range(SpendByDeptProject(Permuted(rows, p))) = Range(result.out)

C4_Witness ==
    /\ result.op = "SpendByDeptProject"
    /\ Len(rows) = 3
    /\ Len(result.out) = 2
    /\ \E i \in 1..2 : result.out[i].costFixed[1] > 0 /\ result.out[i].costVariable[1] > 0

(***************************************************************************)
(* C5 as stated.  In every row of buildCustomerEconomics the status is     *)
(* FAIL exactly when the row's grossMarginPct is below floorGM, WARN       *)
(* exactly when it is at least floorGM and below targetGM, OK exactly when *)
(* it is at least targetGM.                                                *)
(***************************************************************************)
C5_StatusFromRowMargin ==
    result.op = "buildCustomerEconomics" =>
        \A i \in 1..Len(result.out) :
            LET e == result.out[i]
            IN  /\ e.status = "FAIL" <=> RLt(e.gmPct, floorGM)
                /\ e.status = "WARN" <=> (~RLt(e.gmPct, floorGM) /\ RLt(e.gmPct, targetGM))
                /\ e.status = "OK" <=> ~RLt(e.gmPct, targetGM)

\* the gross margin (revenue - cost) / revenue of customer c before the row
\* rounds it: the customer's margin when its cost is positive, else 0
UnroundedMargin(rs, c) ==
    IF CustomerCost(rs, c)[1] > 0 THEN customerMargin(c) ELSE Zero

(***************************************************************************)
(* C5 amended.  The status is FAIL exactly when the customer's gross       *)
(* margin before rounding is below floorGM, WARN exactly when it is at     *)
(* least floorGM and below targetGM, OK exactly when it is at least        *)
(* targetGM; the row's grossMarginPct is that margin rounded to 4          *)
(* decimals, so a row can show 0.3500 with FAIL or 0.5000 with WARN.       *)
(***************************************************************************)
C5_StatusFromUnroundedMargin ==
    result.op = "buildCustomerEconomics" =>
        \A i \in 1..Len(result.out) :
            LET e == result.out[i]
                gm == UnroundedMargin(rows, e.customer)
            IN  /\ e.status \in {"FAIL", "WARN", "OK"}
                /\ e.status = "FAIL" <=> RLt(gm, floorGM)
                /\ e.status = "WARN" <=> (~RLt(gm, floorGM) /\ RLt(gm, targetGM))
                /\ e.status = "OK" <=> ~RLt(gm, targetGM)
                /\ e.gmPct = toFixed(gm, 4)

C5_Witness ==
    /\ result.op = "buildCustomerEconomics"
    /\ \E i \in 1..Len(result.out) :
         result.out[i].status = "FAIL" /\ result.out[i].gmPct = floorGM
    /\ \E i \in 1..Len(result.out) : result.out[i].status = "OK"
    /\ \E i \in 1..Len(result.out) :
         result.out[i].status = "WARN" /\ RLt(result.out[i].gmPct, targetGM)

(***************************************************************************)
(* C6 as stated.  For every customer whose total cost is positive the row  *)
(* has revenue = cost / (1 - margin) and grossMarginPct = margin, with     *)
(* margin = 0.15 + hash(customer) * 0.4, and multiplying all costs by a    *)
(* positive factor leaves grossMarginPct and status unchanged.             *)
(***************************************************************************)
ScalingKeepsMarginAndStatus ==
    \A k \in ScaleFactors :
        LET scaled == buildCustomerEconomics(Scaled(rows, k))
        IN  \A i \in 1..Len(result.out) :
                CustomerCost(rows, result.out[i].customer)[1] > 0 =>
                    \E j \in 1..Len(scaled) :
                        /\ scaled[j].customer = result.out[i].customer
                        /\ scaled[j].gmPct = result.out[i].gmPct
                        /\ scaled[j].status = result.out[i].status

C6_RevenueAndMarginExact ==
    result.op = "buildCustomerEconomics" =>
        /\ \A i \in 1..Len(result.out) :
             LET e == result.out[i]
                 cost == CustomerCost(rows, e.customer)
                 m == customerMargin(e.customer)
             IN  cost[1] > 0 =>
                     /\ e.revenue = RDiv(cost, RSub(One, m))
                     /\ e.gmPct = m
        /\ ScalingKeepsMarginAndStatus

(***************************************************************************)
(* C6 amended.  For every customer whose total cost is positive the row    *)
(* has revenue = cost / (1 - margin) rounded to 2 decimals and             *)
(* grossMarginPct = margin rounded to 4 decimals, with margin = 0.15 +     *)
(* hash(customer) * 0.4, whatever the cost and units; multiplying all of a *)
(* customer's costs by a positive factor leaves its grossMarginPct and its *)
(* status unchanged.                                                       *)
(***************************************************************************)
C6_RevenueAndMarginRounded ==
    result.op = "buildCustomerEconomics" =>
        /\ \A i \in 1..Len(result.out) :
             LET e == result.out[i]
                 cost == CustomerCost(rows, e.customer)
                 m == customerMargin(e.customer)
             IN  cost[1] > 0 =>
                     /\ e.revenue = toFixed(RDiv(cost, RSub(One, m)), 2)
                     /\ e.gmPct = toFixed(m, 4)
        /\ ScalingKeepsMarginAndStatus

C6_Witness ==
    /\ result.op = "buildCustomerEconomics"
    /\ \E i \in 1..Len(result.out) :
         /\ CustomerCost(rows, result.out[i].customer)[1] > 0
         /\ result.out[i].ncc = 0
    /\ \E i \in 1..Len(result.out) :
         /\ result.out[i].ncc > 0
         /\ Len(OfCustomer(rows, result.out[i].customer)) = 2
         /\ result.out[i].revenue[1] > 0

(***************************************************************************)
(* C2.  The sum of allocatedVariance over the department rows of           *)
(* computeAwsBudgetReconciliation differs from the sum of the daily        *)
(* variance values (totals.variance) by at most 0.01 times the number of   *)
(* rows.                                                                   *)
(***************************************************************************)
AllocatedVariance(x) == x.allocatedVariance
DayVariance(x) == x.variance
C2_AllocationReconciles ==
    result.op = "computeAwsBudgetReconciliation" =>
        /\ result.out.totals.variance = SumBy(result.out.byDay, DayVariance)
        /\ RLe(RAbs(RSub(SumBy(result.out.allocationByDept, AllocatedVariance),
                         result.out.totals.variance)),
               RMul(Dec(1, 2), R(Len(result.out.allocationByDept))))

\* two days, a department billed on both, and a rounding drift that is not 0
C2_Witness ==
    /\ result.op = "computeAwsBudgetReconciliation"
    /\ Len(result.out.byDay) >= 2
    /\ Len(result.out.allocationByDept) >= 2
    /\ \E d \in {"GenAI", "Audio", "Product"} :
         Cardinality({r.date : r \in {x \in Range(rows) : x.vendor = "AWS" /\ x.department = d}}) = 2
    /\ SumBy(result.out.allocationByDept, AllocatedVariance) # result.out.totals.variance

(***************************************************************************)
(* C10.  For every date with AWS usage the billed amount is within 2% of   *)
(* that day's internal AWS cost (to the cent): the billed factor lies in   *)
(* [0.98, 1.02].                                                           *)
(***************************************************************************)
\* the internal AWS cost of a date (line 2700)
InternalOf(rs, date) ==
    toFixed(SumBy(SelectSeq(rs, LAMBDA r : r.vendor = "AWS" /\ r.date = date), RowCost), 2)
HalfCent == Dec(5, 3)
C10_BilledWithinTwoPercent ==
    result.op = "computeAwsBudgetReconciliation" =>
        \A i \in 1..Len(result.out.byDay) :
            LET day == result.out.byDay[i]
                internal == InternalOf(rows, day.date)
            IN  /\ RLe(Dec(98, 2), billedFactor(day.date))
                /\ RLe(billedFactor(day.date), Dec(102, 2))
                /\ RLe(RSub(RMul(internal, Dec(98, 2)), HalfCent), day.awsBilled)
                /\ RLe(day.awsBilled, RAdd(RMul(internal, Dec(102, 2)), HalfCent))

(***************************************************************************)
(* C7 as stated.  In every row returned by buildIdleResaleModel, for each  *)
(* GPU class and for the Totals row, the reported contribution equals the  *)
(* reported revenue minus the reported incrCost minus the reported fees.   *)
(***************************************************************************)
\* revenue - incrCost - fees of a row, from the figures the row reports
RevenueLessCosts(r) == RSub(RSub(r.revenue, r.incrCost), r.fees)
Cent == Dec(1, 2)
RowRevenue(r) == r.revenue
RowIncrCost(r) == r.incrCost
RowFees(r) == r.fees
RowContribution(r) == r.contribution
C7_ContributionIsRevenueLessCosts ==
    result.op = "buildIdleResaleModel" =>
        /\ \A i \in 1..Len(result.out.byGpu) :
             result.out.byGpu[i].contribution = RevenueLessCosts(result.out.byGpu[i])
        /\ result.out.totals.contribution = RevenueLessCosts(result.out.totals)

(***************************************************************************)
(* C7 amended.  Revenue, incrCost, fees and contribution of a GPU class    *)
(* are each rounded to cents on their own, so the reported contribution of *)
(* a class row is within one cent of reported revenue - incrCost - fees.   *)
(* Each money field of the Totals row is the sum of that field over the    *)
(* class rows, so the Totals row satisfies the identity to within one cent *)
(* per class row.                                                          *)
(***************************************************************************)
C7_ContributionWithinACent ==
    result.op = "buildIdleResaleModel" =>
        LET byGpu == result.out.byGpu
            totals == result.out.totals
        IN  /\ \A i \in 1..Len(byGpu) :
                 RLe(RAbs(RSub(byGpu[i].contribution, RevenueLessCosts(byGpu[i]))), Cent)
            /\ totals.revenue = SumBy(byGpu, RowRevenue)
            /\ totals.incrCost = SumBy(byGpu, RowIncrCost)
            /\ totals.fees = SumBy(byGpu, RowFees)
            /\ totals.contribution = SumBy(byGpu, RowContribution)
            /\ RLe(RAbs(RSub(totals.contribution, RevenueLessCosts(totals))),
                   RMul(Cent, R(Len(byGpu))))

\* on-prem usage on two days, fees and incremental cost charged, and a class
\* row and the Totals row each a cent away from the identity
C7_Witness ==
    /\ result.op = "buildIdleResaleModel"
    /\ Cardinality({rows[i].date : i \in {j \in 1..Len(rows) : rows[j].vendor = "On-Prem"}}) = 2
    /\ result.out.totals.fees[1] > 0
    /\ result.out.totals.incrCost[1] > 0
    /\ \E i \in 1..Len(result.out.byGpu) :
         /\ result.out.byGpu[i].revenue[1] > 0
         /\ result.out.byGpu[i].contribution # RevenueLessCosts(result.out.byGpu[i])
    /\ result.out.totals.contribution # RevenueLessCosts(result.out.totals)

(***************************************************************************)
(* C1.  runScenario called with priceUpliftWarnFailPct = 0, every reserved *)
(* fraction 0 or absent, vendorShift pct = 0 and no resale parameters      *)
(* returns a scenario snapshot equal to the baseline snapshot field by     *)
(* field (revenue, cogs, gp, gmPct, fixed, variable) and every delta 0.    *)
(***************************************************************************)
KPIs == {"revenue", "cogs", "gp", "gmPct", "fixed", "variable"}
IsNeutral(params) ==
    /\ params.priceUpliftWarnFailPct = Zero
    /\ \A v \in DOMAIN params.reservedPctByVendor : params.reservedPctByVendor[v] = Zero
    /\ params.vendorShift.pct = Zero
    /\ params.resale = <<>>
C1_ScenarioNeutrality ==
    (result.op = "runScenario" /\ IsNeutral(result.params)) =>
        /\ \A k \in KPIs : result.out.scenario[k] = result.out.baseline[k]
        /\ \A k \in DOMAIN result.out.deltas : result.out.deltas[k] = Zero

C9_FixedUnchangedResaleVariableOnly ==
    result.op = "runScenario" =>
        LET out == result.out
            params == result.params
        IN  /\ out.scenario.fixed = out.baseline.fixed
            /\ out.baseline.fixed = toFixed(SumBy(rows, CostIfOnPrem), 2)
            /\ out.detail.fixedCost = SumBy(rows, CostIfOnPrem)
            /\ params.resale = <<>> => out.detail.resaleTotals = <<>>
            /\ params.resale # <<>> =>
                 LET without == runScenario(rows, [params EXCEPT !.resale = <<>>])
                     rt == out.detail.resaleTotals[1]
                     resaleCosts == RAdd(rt.incrCost, rt.fees)
                 IN  /\ rt = buildIdleResaleModel(rows, params.resale[1],
                                                  params.marketShockPct).totals
                     /\ out.scenario.revenue = RAdd(without.scenario.revenue, rt.revenue)
                     /\ out.scenario.variable = RAdd(without.scenario.variable, resaleCosts)
                     /\ out.scenario.cogs = RAdd(without.scenario.cogs, resaleCosts)
                     /\ out.scenario.fixed = without.scenario.fixed
                     /\ out.detail.fixedCost = without.detail.fixedCost
                     /\ out.detail.costByVendor = without.detail.costByVendor
                     /\ out.baseline = without.baseline

\* resale sold at a cost, all Coreweave spend shifted to On-Prem, and an
\* On-Prem record carrying fixed cost
C9_Witness ==
    /\ result.op = "runScenario"
    /\ result.params.resale # <<>>
    /\ result.out.detail.resaleTotals[1].revenue[1] > 0
    /\ RAdd(result.out.detail.resaleTotals[1].incrCost, result.out.detail.resaleTotals[1].fees)[1] > 0
    /\ result.params.vendorShift.to = "On-Prem"
    /\ result.params.vendorShift.pct[1] > 0
    /\ result.out.detail.costByVendor["On-Prem"][1] > 0
    /\ result.out.baseline.fixed[1] > 0
    /\ \E i \in 1..Len(rows) : rows[i].customer # NoCustomer

(***************************************************************************)
(* C11 as stated.  For every daily row of computeAwsBudgetReconciliation,  *)
(* variance = billed - budget, variancePct = variance / budget * 100 (0    *)
(* when budget is 0), and status is OK when |variancePct| < 1, WARN when   *)
(* 1 <= |variancePct| < 3, and FAIL when |variancePct| >= 3.               *)
(***************************************************************************)
\* variance / budget * 100 of a daily row, unrounded; 0 when budget is 0
VariancePctOf(day) ==
    IF day.budget[1] # 0 THEN RMul(RDiv(day.variance, day.budget), R(100)) ELSE Zero
\* the status bucket read off the row's own variancePct
StatusBucketed(day) ==
    /\ day.status = "OK" <=> RLt(RAbs(day.variancePct), R(1))
    /\ day.status = "WARN" <=> (RLe(R(1), RAbs(day.variancePct)) /\ RLt(RAbs(day.variancePct), R(3)))
    /\ day.status = "FAIL" <=> RLe(R(3), RAbs(day.variancePct))
C11_VarianceAndStatus ==
    result.op = "computeAwsBudgetReconciliation" =>
        \A i \in 1..Len(result.out.byDay) :
            LET day == result.out.byDay[i]
            IN  /\ day.variance = RSub(day.awsBilled, day.budget)
                /\ day.variancePct = VariancePctOf(day)
                /\ StatusBucketed(day)

(***************************************************************************)
(* C11 amended.  For every daily row, variance = billed - budget,          *)
(* variancePct = variance / budget * 100 rounded to two decimals (0 when   *)
(* budget is 0), and status is OK when the row's |variancePct| < 1, WARN   *)
(* when 1 <= |variancePct| < 3, and FAIL when |variancePct| >= 3.          *)
(***************************************************************************)
C11_VariancePctRoundedAndStatus ==
    result.op = "computeAwsBudgetReconciliation" =>
        \A i \in 1..Len(result.out.byDay) :
            LET day == result.out.byDay[i]
            IN  /\ day.variance = RSub(day.awsBilled, day.budget)
                /\ day.variancePct = toFixed(VariancePctOf(day), 2)
                /\ day.status \in {"OK", "WARN", "FAIL"}
                /\ StatusBucketed(day)

\* a day billed under budget by 3% or more whose percentage needed rounding,
\* a day off budget by less than 1%, and a day with budget 0
C11_Witness ==
    /\ result.op = "computeAwsBudgetReconciliation"
    /\ \E i \in 1..Len(result.out.byDay) :
         /\ result.out.byDay[i].variance[1] # 0
         /\ result.out.byDay[i].status = "OK"
    /\ \E i \in 1..Len(result.out.byDay) :
         /\ result.out.byDay[i].variancePct[1] < 0
         /\ result.out.byDay[i].status = "FAIL"
         /\ result.out.byDay[i].variancePct # VariancePctOf(result.out.byDay[i])
    /\ \E i \in 1..Len(result.out.byDay) :
         /\ result.out.byDay[i].budget = Zero
         /\ result.out.byDay[i].status = "OK"

(***************************************************************************)
(* C12.  For a customer whose total units are 0, buildCustomerEconomics    *)
(* reports cogsPerNcc = 0, pricePerNcc = 0, minPriceFloor = 0 and          *)
(* minPriceTarget = 0, and every number of every row is finite (a ratio    *)
(* with a non-zero denominator), whatever the customer's cost.             *)
(***************************************************************************)
\* x is a number: neither NaN nor an infinity (no division by zero made it)
IsFinite(x) == x[2] > 0
C12_ZeroUnitsNoDivision ==
    result.op = "buildCustomerEconomics" =>
        \A i \in 1..Len(result.out) :
            LET e == result.out[i]
            IN  /\ e.ncc = 0 =>
                     /\ e.cogsPerNcc = Zero
                     /\ e.pricePerNcc = Zero
                     /\ e.minPriceFloor = Zero
                     /\ e.minPriceTarget = Zero
                     /\ e.rec.upliftPct = Zero
                /\ \A f \in {"cost", "revenue", "gmPct", "pricePerNcc", "cogsPerNcc",
                             "minPriceFloor", "minPriceTarget"} : IsFinite(e[f])
                /\ IsFinite(e.rec.upliftPct)

\* a customer with no units and a positive cost, from two records, next to a
\* customer with units
C12_Witness ==
    /\ result.op = "buildCustomerEconomics"
    /\ \E i \in 1..Len(result.out) :
         /\ result.out[i].ncc = 0
         /\ result.out[i].cost[1] > 0
         /\ result.out[i].revenue[1] > 0
         /\ Len(OfCustomer(rows, result.out[i].customer)) = 2
    /\ \E i \in 1..Len(result.out) : result.out[i].ncc > 0

(***************************************************************************)
(* C13.  With an empty record set no entry point fails:                    *)
(* computeBaselineKPIs returns all-zero KPIs with gmPct 0,                 *)
(* buildCustomerEconomics returns no rows, computeAwsBudgetReconciliation  *)
(* returns no rows and zero totals, buildIdleResaleModel returns zero idle *)
(* units, revenue and contribution for every class and for Totals, and     *)
(* runScenario returns all-zero snapshots and deltas.                      *)
(***************************************************************************)
ZeroKPIs == [k \in KPIs |-> Zero]
\* a resale row with nothing idle and nothing sold
IsZeroResaleRow(r) ==
    /\ r.idleNcc = 0
    /\ r.resaleNcc = 0
    /\ r.revenue = Zero
    /\ r.incrCost = Zero
    /\ r.fees = Zero
    /\ r.contribution = Zero
C13_EmptyRecordSet ==
    (rows = <<>> /\ result # NoResult) =>
        /\ result.op \in {"SpendByDeptProject", "buildCustomerEconomics",
                          "computeAwsBudgetReconciliation", "computeBaselineKPIs",
                          "buildIdleResaleModel", "runScenario"}
        /\ result.op = "SpendByDeptProject" => result.out = <<>>
        /\ result.op = "buildCustomerEconomics" => result.out = <<>>
        /\ result.op = "computeAwsBudgetReconciliation" =>
             /\ result.out.byDay = <<>>
             /\ result.out.allocationByDept = <<>>
             /\ result.out.totals = [budget |-> Zero, awsBilled |-> Zero, variance |-> Zero]
        /\ result.op = "computeBaselineKPIs" => result.out = ZeroKPIs
        /\ result.op = "buildIdleResaleModel" =>
             /\ Len(result.out.byGpu) = Len(CapacityKeys)
             /\ \A i \in 1..Len(result.out.byGpu) : IsZeroResaleRow(result.out.byGpu[i])
             /\ IsZeroResaleRow(result.out.totals)
        /\ result.op = "runScenario" =>
             /\ result.out.baseline = ZeroKPIs
             /\ result.out.scenario = ZeroKPIs
             /\ \A k \in DOMAIN result.out.deltas : result.out.deltas[k] = Zero
             /\ result.out.detail.fixedCost = Zero
             /\ \A v \in VendorSet : result.out.detail.costByVendor[v] = Zero
             /\ result.params.resale # <<>> =>
                  IsZeroResaleRow(result.out.detail.resaleTotals[1])

\* the scenario engine run on no records with every knob turned, resale
\* included
C13_Witness ==
    /\ rows = <<>>
    /\ result.op = "runScenario"
    /\ result.params.resale # <<>>
    /\ result.params.priceUpliftWarnFailPct[1] > 0
    /\ result.params.vendorShift.pct[1] > 0
    /\ result.out.scenario.gmPct = Zero

(***************************************************************************)
(* C14.  A usage record with a negative cost or negative units passed to   *)
(* buildCustomerEconomics, computeAwsBudgetReconciliation,                 *)
(* buildIdleResaleModel or runScenario is rejected with an error outcome:  *)
(* no result computed from that record is returned.                        *)
(***************************************************************************)
\* the record breaks the UsageRecord invariant cost >= 0, units >= 0
IsInvalidRecord(r) == r.cost[1] < 0 \/ r.ncc < 0
\* the entry point returned a computed value (it did not throw)
ReturnedValue ==
    result.op \in {"buildCustomerEconomics", "computeAwsBudgetReconciliation",
                   "buildIdleResaleModel", "runScenario"}
C14_NegativeRecordRejected ==
    (\E i \in 1..Len(rows) : IsInvalidRecord(rows[i])) => ~ReturnedValue

(***************************************************************************)
(* C15.  runScenario given a vendorShift pct, a reserved fraction or a     *)
(* resale fraction (sellThroughPct, marketplaceFeePct) outside [0, 1]      *)
(* fails before any aggregation starts and returns no scenario result.     *)
(***************************************************************************)
IsFraction(x) == RLe(Zero, x) /\ RLe(x, One)
FractionsInRange(params) ==
    /\ IsFraction(params.vendorShift.pct)
    /\ \A v \in DOMAIN params.reservedPctByVendor : IsFraction(params.reservedPctByVendor[v])
    /\ params.resale # <<>> =>
         /\ IsFraction(params.resale[1].sellThroughPct)
         /\ IsFraction(params.resale[1].marketplaceFeePct)
C15_OutOfRangeKnobRejected ==
    result.op = "runScenario" => FractionsInRange(result.params)

(***************************************************************************)
(* C16.  For every integer seed (positive, zero or negative), every value  *)
(* returned by the generator rand(seed), after any number of draws, is at  *)
(* least 0 and strictly below 1, the state following                       *)
(* x' = (x * 48271) mod 2147483647.                                        *)
(***************************************************************************)
C16_RandInUnitInterval ==
    (result.op = "rand" /\ result.draws > 0) =>
        /\ RLe(Zero, result.out)
        /\ RLt(result.out, One)
        /\ result.out = randValue(result.x)

(***************************************************************************)
(* C17.  For every string s, hash01(s) is at least 0 and strictly less     *)
(* than 1, so that every customer margin 0.15 + hash01(customer) * 0.4 is  *)
(* strictly below 0.55.                                                    *)
(***************************************************************************)
C17_HashBelowOne ==
    result.op = "hash01" =>
        /\ RLe(Zero, result.out)
        /\ RLt(result.out, One)
        /\ RLt(result.margin, Dec(55, 2))

(***************************************************************************)
(* C18.  For every date that appears in the record set and every GPU class *)
(* of the capacity table, buildIdleResaleModel adds max(0, capacity -      *)
(* On-Prem units used that day) to the class's idle total; a class with no *)
(* On-Prem usage on a date, including a date on which no record at all is  *)
(* On-Prem, contributes its full daily capacity for that date.             *)
(***************************************************************************)
\* the dates of the record set, each once
ObservedDates(rs) == KeysInOrder(rs, "date")
\* max(0, capacity - On-Prem units of class gpu used on date d)
IdleOn(rs, d, gpu) ==
    IF capacityOf(gpu) - usedNcc(rs, d, gpu) > 0
    THEN capacityOf(gpu) - usedNcc(rs, d, gpu) ELSE 0
\* the idle total of class gpu over every observed date
IdleOverObservedDates(rs, gpu) ==
    LET ds == ObservedDates(rs)
    IN  IntSum([i \in 1..Len(ds) |-> IdleOn(rs, ds[i], gpu)])
C18_IdleOverEveryObservedDate ==
    result.op = "buildIdleResaleModel" =>
        \A i \in 1..Len(result.out.byGpu) :
            result.out.byGpu[i].idleNcc =
                IdleOverObservedDates(rows, result.out.byGpu[i].gpuType)

(***************************************************************************)
(* C19.  In runScenario with shift pct in (0, 1], from # to, positive      *)
(* variable cost at the from vendor, VENDOR_UNIT_INDEX[to] <               *)
(* VENDOR_UNIT_INDEX[from], and no reserved discount or resale, the total  *)
(* scenario variable cost (the sum of the cost by vendor) is strictly      *)
(* lower than the variable cost of the records, by exactly the moved       *)
(* amount * (1 - index[to] / index[from]); the reported scenario.variable  *)
(* is that total rounded to cents.                                         *)
(***************************************************************************)
\* the variable cost of the records billed by vendor v
VariableCostAt(rs, v) ==
    SumBy(SelectSeq(rs, LAMBDA r : r.vendor = v), CostIfNotOnPrem)
\* the sum of a cost-by-vendor table
TotalByVendor(c) == RSum([k \in 1..Len(Vendors) |-> c[Vendors[k]]])
ShiftsToCheaper(rs, params) ==
    /\ params.vendorShift.pct[1] > 0
    /\ RLe(params.vendorShift.pct, One)
    /\ params.vendorShift.from # params.vendorShift.to
    /\ VariableCostAt(rs, params.vendorShift.from)[1] > 0
    /\ RLt(VENDOR_UNIT_INDEX[params.vendorShift.to], VENDOR_UNIT_INDEX[params.vendorShift.from])
    /\ \A v \in DOMAIN params.reservedPctByVendor : params.reservedPctByVendor[v] = Zero
    /\ params.resale = <<>>
C19_ShiftToCheaperVendorSaves ==
    (result.op = "runScenario" /\ ShiftsToCheaper(rows, result.params)) =>
        LET shift == result.params.vendorShift
            before == SumBy(rows, CostIfNotOnPrem)
            moved == RMul(VariableCostAt(rows, shift.from), shift.pct)
            saved == RMul(moved, RSub(One, RDiv(VENDOR_UNIT_INDEX[shift.to],
                                             VENDOR_UNIT_INDEX[shift.from])))
            after == TotalByVendor(result.out.detail.costByVendor)
        IN  /\ after = RSub(before, saved)
            /\ RLt(after, before)
            /\ result.out.baseline.variable = toFixed(before, 2)
            /\ result.out.scenario.variable = toFixed(after, 2)
            /\ RLe(result.out.scenario.variable, result.out.baseline.variable)

\* half of the AWS spend moved to On-Prem, the cheapest index, while other
\* vendors keep theirs
C19_Witness ==
    /\ result.op = "runScenario"
    /\ ShiftsToCheaper(rows, result.params)
    /\ result.params.vendorShift.to = "On-Prem"
    /\ RLt(result.params.vendorShift.pct, One)
    /\ RLt(result.out.scenario.variable, result.out.baseline.variable)
    /\ \E i \in 1..Len(rows) : rows[i].vendor \notin {"AWS", "On-Prem"}

(***************************************************************************)
(* C20.  In runScenario the reserved-capacity discount is applied after    *)
(* the vendor shift: each vendor's final variable cost equals its          *)
(* post-shift variable cost * (1 - reservedFraction * 0.20), so the amount *)
(* shifted into the 'to' vendor is discounted at the 'to' vendor's         *)
(* reserved fraction and the amount shifted out of the 'from' vendor earns *)
(* no discount there; a vendor with no reserved fraction keeps its         *)
(* post-shift cost.                                                        *)
(***************************************************************************)
ShiftApplies(shift) == shift.pct[1] > 0 /\ shift.from # shift.to
\* the amount taken out of the from vendor
MovedAmount(rs, shift) ==
    IF ShiftApplies(shift) THEN RMul(VariableCostAt(rs, shift.from), shift.pct) ELSE Zero
\* vendor v's variable cost once the shift has been made
PostShiftCost(rs, shift, v) ==
    RAdd(RSub(VariableCostAt(rs, v),
              IF v = shift.from THEN MovedAmount(rs, shift) ELSE Zero),
         IF v = shift.to
         THEN RMul(MovedAmount(rs, shift),
                   RDiv(VENDOR_UNIT_INDEX[shift.to], VENDOR_UNIT_INDEX[shift.from]))
         ELSE Zero)
C20_DiscountAfterShift ==
    result.op = "runScenario" =>
        \A v \in VendorSet :
            LET post == PostShiftCost(rows, result.params.vendorShift, v)
                reserved == result.params.reservedPctByVendor
            IN  /\ v \in DOMAIN reserved =>
                     result.out.detail.costByVendor[v] =
                         RMul(post, RSub(One, RMul(reserved[v], Dec(20, 2))))
                /\ (v \notin DOMAIN reserved \/ reserved[v] = Zero) =>
                     result.out.detail.costByVendor[v] = post

\* a positive amount moves between two vendors reserved at different
\* fractions, next to a vendor with a cost and no reserved fraction
C20_Witness ==
    /\ result.op = "runScenario"
    /\ ShiftApplies(result.params.vendorShift)
    /\ MovedAmount(rows, result.params.vendorShift)[1] > 0
    /\ LET reserved == result.params.reservedPctByVendor
           shift == result.params.vendorShift
       IN  /\ shift.from \in DOMAIN reserved /\ shift.to \in DOMAIN reserved
           /\ reserved[shift.from][1] > 0
           /\ reserved[shift.to] # reserved[shift.from]
           /\ \E v \in VendorSet : /\ v \notin DOMAIN reserved
                                   /\ result.out.detail.costByVendor[v][1] > 0

(***************************************************************************)
(* C21.  With no resale parameters, the scenario revenue of runScenario    *)
(* equals the sum over customers of the baseline inferred revenue *        *)
(* (1 + upliftPct/100) for customers whose guardrail status on the         *)
(* unmodified records is WARN or FAIL, and * 1 for customers with status   *)
(* OK; the revenue of OK customers is never changed by the uplift.  The    *)
(* reported scenario.revenue is that sum at 2 decimals.                    *)
(***************************************************************************)
\* the inferred revenue of the customers whose guardrail status, as
\* buildCustomerEconomics gives it on the records, is in statuses
InferredRevenue(rs, statuses) ==
    LET econ == buildCustomerEconomics(rs)
    IN  RSum([i \in 1..Len(econ) |->
                IF econ[i].status \in statuses
                THEN revenueFromCustomerCost(econ[i].customer,
                                             CustomerCost(rs, econ[i].customer))
                ELSE Zero])
C21_UpliftOnWarnFailOnly ==
    (result.op = "runScenario" /\ result.params.resale = <<>>) =>
        LET factor == RAdd(One, RDiv(result.params.priceUpliftWarnFailPct, R(100)))
        IN  result.out.scenario.revenue =
                toFixed(RAdd(RMul(InferredRevenue(rows, {"WARN", "FAIL"}), factor),
                             InferredRevenue(rows, {"OK"})), 2)

\* an OK customer and a WARN or FAIL customer, both with revenue, under a
\* non-zero uplift
C21_Witness ==
    /\ result.op = "runScenario"
    /\ result.params.resale = <<>>
    /\ result.params.priceUpliftWarnFailPct # Zero
    /\ InferredRevenue(rows, {"OK"})[1] > 0
    /\ InferredRevenue(rows, {"WARN", "FAIL"})[1] > 0
    /\ result.out.scenario.revenue # result.out.baseline.revenue

UnroundedResaleRow(rs, gpu, params, shockPct) ==
    LET idle == sumByGpu(rs, aggregateOnPremNccByDayAndGpu(rs), gpu)
        resaleNcc == RMul(R(IF idle > 0 THEN idle ELSE 0), params.sellThroughPct)
        gross == RMul(resaleNcc, RMul(benchmarkFor(gpu, RAdd(One, shockPct)).spot,
                                      params.pricePctOfBenchmark))
    IN  [revenue |-> gross,
         fees |-> RMul(gross, params.marketplaceFeePct),
         incrCost |-> RMul(resaleNcc, params.incrementalCostPerNcc)]
\* the sum of one of those amounts over the GPU classes; nothing without resale
UnroundedResale(rs, params, field) ==
    IF params.resale = <<>> THEN Zero
    ELSE RSum([k \in 1..Len(CapacityKeys) |->
                 UnroundedResaleRow(rs, CapacityKeys[k], params.resale[1],
                                    params.marketShockPct)[field]])
FullPrecisionRevenue(rs, params) ==
    RAdd(RAdd(RMul(InferredRevenue(rs, {"WARN", "FAIL"}),
                   RAdd(One, RDiv(params.priceUpliftWarnFailPct, R(100)))),
              InferredRevenue(rs, {"OK"})),
         UnroundedResale(rs, params, "revenue"))
FullPrecisionCogs(rs, params, detail) ==
    RAdd(RAdd(detail.fixedCost, TotalByVendor(detail.costByVendor)),
         RAdd(UnroundedResale(rs, params, "incrCost"), UnroundedResale(rs, params, "fees")))
C23_RoundedOnlyOnReturn ==
    result.op = "runScenario" =>
        LET revenue == FullPrecisionRevenue(rows, result.params)
            cogs == FullPrecisionCogs(rows, result.params, result.out.detail)
        IN  /\ result.out.scenario.revenue = toFixed(revenue, 2)
            /\ result.out.scenario.cogs = toFixed(cogs, 2)
            /\ result.out.scenario.gp = toFixed(RSub(revenue, cogs), 2)

(***************************************************************************)
(* C24.  The levers of runScenario are independent: with resale absent,    *)
(* changing the vendor shift or the reserved fractions never changes       *)
(* scenario revenue, and changing the price uplift never changes scenario  *)
(* cogs, fixed, variable or any per-vendor variable cost in                *)
(* detail.costByVendor.                                                    *)
(***************************************************************************)
\* params with the cost levers (shift, reserved fractions) of q
WithCostLeversOf(params, q) ==
    [params EXCEPT !.vendorShift = q.vendorShift,
                   !.reservedPctByVendor = q.reservedPctByVendor]
\* params with the price uplift of q
WithUpliftOf(params, q) ==
    [params EXCEPT !.priceUpliftWarnFailPct = q.priceUpliftWarnFailPct]
C24_LeversIndependent ==
    (result.op = "runScenario" /\ result.params.resale = <<>>) =>
        \A q \in ScenarioParamsSet :
            /\ runScenario(rows, WithCostLeversOf(result.params, q)).scenario.revenue =
                   result.out.scenario.revenue
            /\ LET other == runScenario(rows, WithUpliftOf(result.params, q))
               IN  /\ other.scenario.cogs = result.out.scenario.cogs
                   /\ other.scenario.fixed = result.out.scenario.fixed
                   /\ other.scenario.variable = result.out.scenario.variable
                   /\ other.detail.costByVendor = result.out.detail.costByVendor

\* an uplift that changes the revenue next to a shift under reserved
\* fractions that changes the variable cost
C24_Witness ==
    /\ result.op = "runScenario"
    /\ result.params.resale = <<>>
    /\ result.out.scenario.revenue # result.out.baseline.revenue
    /\ result.out.scenario.variable # result.out.baseline.variable
    /\ \E q \in ScenarioParamsSet :
           /\ runScenario(rows, WithCostLeversOf(result.params, q)).scenario.variable #
                  result.out.scenario.variable
           /\ runScenario(rows, WithUpliftOf(result.params, q)).scenario.revenue #
                  result.out.scenario.revenue

(***************************************************************************)
(* C25.  For non-negative record costs, a shift pct in [0, 1] and reserved *)
(* fractions in [0, 1], every per-vendor variable cost in                  *)
(* detail.costByVendor returned by runScenario is at least 0, the 'from'   *)
(* vendor's is exactly 0 when shift pct = 1, and On-Prem's is 0 unless     *)
(* On-Prem is the shift target.                                            *)
(***************************************************************************)
CostLeversInRange(rs, params) ==
    /\ \A i \in 1..Len(rs) : rs[i].cost[1] >= 0
    /\ IsFraction(params.vendorShift.pct)
    /\ \A v \in DOMAIN params.reservedPctByVendor : IsFraction(params.reservedPctByVendor[v])
C25_CostByVendorNonNegative ==
    (result.op = "runScenario" /\ CostLeversInRange(rows, result.params)) =>
        LET shift == result.params.vendorShift
            costByVendor == result.out.detail.costByVendor
        IN  /\ \A v \in VendorSet : costByVendor[v][1] >= 0
            /\ shift.pct = One => costByVendor[shift.from] = Zero
            /\ shift.to # "On-Prem" => costByVendor["On-Prem"] = Zero

(***************************************************************************)
(* C25 amended.  As C25, with the 'from' vendor's cost exactly 0 when      *)
(* shift pct = 1 and the 'to' vendor is another vendor: a shift from a     *)
(* vendor to itself is not made and leaves that vendor's cost in place.    *)
(***************************************************************************)
C25_CostByVendorNonNegativeShiftMade ==
    (result.op = "runScenario" /\ CostLeversInRange(rows, result.params)) =>
        LET shift == result.params.vendorShift
            costByVendor == result.out.detail.costByVendor
        IN  /\ \A v \in VendorSet : costByVendor[v][1] >= 0
            /\ (shift.pct = One /\ shift.from # shift.to) => costByVendor[shift.from] = Zero
            /\ (shift.pct = One /\ shift.from = shift.to) =>
                   costByVendor[shift.from] =
                       RMul(VariableCostAt(rows, shift.from),
                            RSub(One, RMul(reservedPct(result.params.reservedPctByVendor,
                                                       shift.from), COMMIT_DISCOUNT)))
            /\ shift.to # "On-Prem" => costByVendor["On-Prem"] = Zero

\* the whole cost of a vendor moved to On-Prem, whose reserved fraction is 1,
\* with On-Prem records present
C25_Witness ==
    /\ result.op = "runScenario"
    /\ CostLeversInRange(rows, result.params)
    /\ result.params.vendorShift.pct = One
    /\ result.params.vendorShift.from # result.params.vendorShift.to
    /\ VariableCostAt(rows, result.params.vendorShift.from)[1] > 0
    /\ result.params.vendorShift.to = "On-Prem"
    /\ result.out.detail.costByVendor["On-Prem"][1] > 0
    /\ result.out.detail.fixedCost[1] > 0

(***************************************************************************)
(* C26.  For every customer row of buildCustomerEconomics with positive    *)
(* cost and positive units, the price per unit is consistent with the      *)
(* status: FAIL implies pricePerUnit < minPriceAtFloor, WARN implies       *)
(* minPriceAtFloor <= pricePerUnit < minPriceAtTarget, OK implies          *)
(* pricePerUnit >= minPriceAtTarget; and minPriceAtFloor <=                *)
(* minPriceAtTarget in every row, so the uplift recommended to a FAIL or   *)
(* WARN customer is never negative.                                        *)
(***************************************************************************)
HasCostAndUnits(e) == e.cost[1] > 0 /\ e.ncc > 0
C26_PriceConsistentWithStatus ==
    result.op = "buildCustomerEconomics" =>
        \A i \in 1..Len(result.out) :
            LET e == result.out[i]
            IN  /\ RLe(e.minPriceFloor, e.minPriceTarget)
                /\ e.status \in {"FAIL", "WARN"} => e.rec.upliftPct[1] >= 0
                /\ HasCostAndUnits(e) =>
                     /\ e.status = "FAIL" => RLt(e.pricePerNcc, e.minPriceFloor)
                     /\ e.status = "WARN" => /\ RLe(e.minPriceFloor, e.pricePerNcc)
                                             /\ RLt(e.pricePerNcc, e.minPriceTarget)
                     /\ e.status = "OK" => RLe(e.minPriceTarget, e.pricePerNcc)

(***************************************************************************)
(* C26 amended.  Before rounding, the price per unit of a customer with    *)
(* positive cost and positive units is below the minimum price at floor    *)
(* exactly when the status is FAIL, at least that and below the minimum    *)
(* price at target exactly when it is WARN, and at least the minimum price *)
(* at target exactly when it is OK.  The row reports each of the three     *)
(* prices rounded to 4 decimals, so in the row FAIL implies pricePerUnit   *)
(* <= minPriceAtFloor, WARN implies minPriceAtFloor <= pricePerUnit <=     *)
(* minPriceAtTarget and OK implies pricePerUnit >= minPriceAtTarget;       *)
(* minPriceAtFloor <= minPriceAtTarget in every row and the uplift         *)
(* recommended to a FAIL or WARN customer is never negative.               *)
(***************************************************************************)
CustomerUnits(rs, c) == IntSumBy(OfCustomer(rs, c), RowNcc)
\* price per unit and the two minimum prices of customer c before rounding
UnroundedPrices(rs, c) ==
    LET cogsPerNcc == RDiv(CustomerCost(rs, c), R(CustomerUnits(rs, c)))
    IN  [pricePerNcc |-> RDiv(revenueFromCustomerCost(c, CustomerCost(rs, c)),
                              R(CustomerUnits(rs, c))),
         minPriceFloor |-> RDiv(cogsPerNcc, RSub(One, Dec(35, 2))),
         minPriceTarget |-> RDiv(cogsPerNcc, RSub(One, Dec(50, 2)))]
C26_PriceConsistentBeforeRounding ==
    result.op = "buildCustomerEconomics" =>
        \A i \in 1..Len(result.out) :
            LET e == result.out[i]
            IN  /\ RLe(e.minPriceFloor, e.minPriceTarget)
                /\ e.status \in {"FAIL", "WARN"} => e.rec.upliftPct[1] >= 0
                /\ HasCostAndUnits(e) =>
                     LET u == UnroundedPrices(rows, e.customer)
                     IN  /\ e.pricePerNcc = toFixed(u.pricePerNcc, 4)
                         /\ e.minPriceFloor = toFixed(u.minPriceFloor, 4)
                         /\ e.minPriceTarget = toFixed(u.minPriceTarget, 4)
                         /\ e.status = "FAIL" <=> RLt(u.pricePerNcc, u.minPriceFloor)
                         /\ e.status = "WARN" <=> /\ RLe(u.minPriceFloor, u.pricePerNcc)
                                                  /\ RLt(u.pricePerNcc, u.minPriceTarget)
                         /\ e.status = "OK" <=> RLe(u.minPriceTarget, u.pricePerNcc)
                         /\ e.status = "FAIL" => RLe(e.pricePerNcc, e.minPriceFloor)
                         /\ e.status = "WARN" => /\ RLe(e.minPriceFloor, e.pricePerNcc)
                                                 /\ RLe(e.pricePerNcc, e.minPriceTarget)
                         /\ e.status = "OK" => RLe(e.minPriceTarget, e.pricePerNcc)

\* rows of all three statuses with cost and units, one of them a FAIL row
\* whose price rounds to its minimum price at floor
C26_Witness ==
    /\ result.op = "buildCustomerEconomics"
    /\ \A s \in {"FAIL", "WARN", "OK"} :
         \E i \in 1..Len(result.out) :
             result.out[i].status = s /\ HasCostAndUnits(result.out[i])
    /\ \E i \in 1..Len(result.out) :
         /\ result.out[i].status = "FAIL"
         /\ HasCostAndUnits(result.out[i])
         /\ result.out[i].pricePerNcc = result.out[i].minPriceFloor

(***************************************************************************)
(* C27.  The journal entry built by exportNetSuiteJournal is balanced for  *)
(* every record set: the sum of the per-department 'Line Debit' amounts    *)
(* equals the single 'Line Credit' amount.                                 *)
(***************************************************************************)
DebitLines(journal) == SelectSeq(journal, LAMBDA l : l.debit # <<>>)
CreditLines(journal) == SelectSeq(journal, LAMBDA l : l.credit # <<>>)
LineDebit(l) == l.debit[1]
IsActivityMessage(q) == q \in Queries \ UserQueries
C28_QueryRestored ==
    /\ IsActivityMessage(query) => isLoading
    /\ ~IsActivityMessage(prevQueryRef)

(***************************************************************************)
(* C29.  While a ChatBar loading sequence is in progress every further Ask *)
(* or Insights request is ignored, and each started sequence invokes at    *)
(* most one action callback: exactly the requested one (onGo for Ask,      *)
(* onInsights for Insights), exactly once, after the query has been        *)
(* restored, and never after the ChatBar has been unmounted.               *)
(***************************************************************************)
\* the timeouts of one type that are pending in the timer list ts
PendingOf(ts, type) == SelectSeq(ts, LAMBDA x : x.type = type)
\* this step calls onGo or onInsights: the timeout that calls it has run (it is
\* set by the step that restores the query, so it runs after the restoring)
CallbackInvoked == Len(PendingOf(timers', "action")) < Len(PendingOf(timers, "action"))
C29_OneCallbackWhileMounted ==
    [][/\ isLoading => Len(PendingOf(timers', "done")) <= Len(PendingOf(timers, "done"))
       /\ Len(PendingOf(timers', "done")) <= 1
       /\ CallbackInvoked =>
            /\ Len(PendingOf(timers, "action")) = Len(PendingOf(timers', "action")) + 1
            /\ activeTab = "compute"
            /\ ~PendingOf(timers, "action")[1].orphan
            /\ PendingOf(timers, "action")[1].action = "ask" =>
                   kind' = detectIntent(PendingOf(timers, "action")[1].query)
            /\ PendingOf(timers, "action")[1].action = "insights" => showInsights']_vars

(***************************************************************************)
(* C30.  After any sequence of run, revealInsightsOnly and tab changes in  *)
(* App, a report kind and the insights panel are never shown together      *)
(* (kind # null and showInsights = true never hold at once), and           *)
(* showInsights is false whenever the active tab is not 'compute'.         *)
(***************************************************************************)
C30_KindAndInsightsExclusive ==
    /\ ~(kind # NoKind /\ showInsights)
    /\ activeTab # "compute" => ~showInsights

====
